---- MODULE Spec2Model ----
(***************************************************************************)
(* Model of ui_app.agent_wrapper.AgentWrapper: the task-execution relay.   *)
(* One AgentWrapper instance; every invocation of run_task_async is a run  *)
(* r with its own generator frame (gpc, the local queues) and its own      *)
(* worker thread (agent_thread).  is_running, stop_event and agent are the *)
(* instance fields all runs share.                                         *)
(***************************************************************************)
EXTENDS Integers, Sequences, FiniteSets, TLC

\* Number of run_task_async invocations on the one AgentWrapper.
MaxRuns == 2

Runs == 1..MaxRuns

(***************************************************************************)
(* Lines of captured output.  A line (after strip) is described by the     *)
(* marker substrings it contains, whether it starts with "--", and the id  *)
(* of its remaining text (0: none).                                        *)
(***************************************************************************)
Line(marks, dash, txt) == [marks |-> marks, dash |-> dash, txt |-> txt]

ThinkLine == Line({"think"}, FALSE, 0)
PerfLine == Line({"perf"}, FALSE, 0)
TextLine(t) == Line({}, FALSE, t)

\* An event dict {"type", "message", ...}: text is the message payload,
\* src the run whose worker produced the result or error it carries.
Ev(kind, text, src) == [kind |-> kind, text |-> text, src |-> src]

NoSection == "none"

\* ParseLine whose performance marker branch joins only the last line of
\* section_content into the thinking event.
ParseLine_LastLineOnly(st, line) ==
    IF line.marks = {} /\ ~line.dash /\ line.txt = 0
    THEN st
    ELSE IF "think" \in line.marks
    THEN [st EXCEPT !.section = "thinking", !.content = <<>>]
    ELSE IF "perf" \in line.marks
    THEN [st EXCEPT !.section = "performance", !.content = <<>>,
              !.out = IF st.section = "thinking" /\ st.content # <<>>
                      THEN Append(st.out,
                                  Ev("thinking",
                                     <<st.content[Len(st.content)]>>, 0))
                      ELSE st.out]
    ELSE IF "act" \in line.marks
    THEN [st EXCEPT !.section = "action", !.content = <<>>,
              !.out = IF st.section = "performance" /\ st.content # <<>>
                      THEN Append(st.out, Ev("performance", st.content, 0))
                      ELSE st.out]
    ELSE IF "parse" \in line.marks
    THEN [st EXCEPT !.out = Append(st.out, Ev("action", <<line.txt>>, 0))]
    ELSE IF "take" \in line.marks
    THEN [st EXCEPT !.out = Append(st.out, Ev("takeover", <<>>, 0))]
    ELSE IF st.section # NoSection /\ line.dash
    THEN st
    ELSE IF st.section # NoSection
    THEN [st EXCEPT !.content = Append(st.content, line.txt)]
    ELSE st

\* One iteration of the for loop of _parse_agent_output.
ParseLine(st, line) ==
    IF line.marks = {} /\ ~line.dash /\ line.txt = 0
    THEN st
    ELSE IF "think" \in line.marks
    THEN [st EXCEPT !.section = "thinking", !.content = <<>>]
    ELSE IF "perf" \in line.marks
    THEN [st EXCEPT !.section = "performance", !.content = <<>>,
              !.out = IF st.section = "thinking" /\ st.content # <<>>
                      THEN Append(st.out, Ev("thinking", st.content, 0))
                      ELSE st.out]
    ELSE IF "act" \in line.marks
    THEN [st EXCEPT !.section = "action", !.content = <<>>,
              !.out = IF st.section = "performance" /\ st.content # <<>>
                      THEN Append(st.out, Ev("performance", st.content, 0))
                      ELSE st.out]
    ELSE IF "parse" \in line.marks
    THEN [st EXCEPT !.out = Append(st.out, Ev("action", <<line.txt>>, 0))]
    ELSE IF "take" \in line.marks
    THEN [st EXCEPT !.out = Append(st.out, Ev("takeover", <<>>, 0))]
    ELSE IF st.section # NoSection /\ line.dash
    THEN st
    ELSE IF st.section # NoSection
    THEN [st EXCEPT !.content = Append(st.content, line.txt)]
    ELSE st

RECURSIVE ParseLines(_, _)
ParseLines(st, lines) ==
    IF lines = <<>> THEN st
    ELSE ParseLines(ParseLine(st, Head(lines)), Tail(lines))

\* _parse_agent_output: the events put on step_queue, in order.
ParseAgentOutput(lines) ==
    LET st == ParseLines([section |-> NoSection, content |-> <<>>, out |-> <<>>],
                         lines)
    IN  IF st.section = "thinking" /\ st.content # <<>>
        THEN Append(st.out, Ev("thinking", st.content, 0))
        ELSE IF st.section = "performance" /\ st.content # <<>>
        THEN Append(st.out, Ev("performance", st.content, 0))
        ELSE st.out

\* What agent.run may have written when it returns or raises.
AgentOutputs ==
    { <<>>,
      <<ThinkLine, TextLine(1), PerfLine, TextLine(2)>> }

VARIABLES
    is_running,     \* self.is_running
    stop_event,     \* self._stop_event
    agent,          \* self.agent is not None
    gpc,            \* per run: where the generator frame of run_task_async is
    events,         \* per run: the events yielded to the consumer so far
    agent_thread,   \* per run: state of the worker thread
    step_queue,     \* per run: step_queue
    result_queue,   \* per run: result_queue
    error_queue,    \* per run: error_queue
    topush,         \* per run: events _parse_agent_output still has to put
    output,         \* per run: captured_output when agent.run ended
    pushed,         \* history: the events the worker has put on step_queue
    outcome,        \* history: how agent.run ended ("none", "returned", "raised")
    path,           \* history: which way the run went before its polling loop
    stopReq         \* history: stop_task was called between the run's start
                    \* event and its terminal event

vars == <<is_running, stop_event, agent, gpc, events, agent_thread, step_queue,
          result_queue, error_queue, topush, output, pushed, outcome, path,
          stopReq>>

Init ==
    /\ is_running = FALSE
    /\ stop_event = FALSE
    /\ agent = FALSE
    /\ gpc = [r \in Runs |-> "new"]
    /\ events = [r \in Runs |-> <<>>]
    /\ agent_thread = [r \in Runs |-> "none"]
    /\ step_queue = [r \in Runs |-> <<>>]
    /\ result_queue = [r \in Runs |-> <<>>]
    /\ error_queue = [r \in Runs |-> <<>>]
    /\ topush = [r \in Runs |-> <<>>]
    /\ output = [r \in Runs |-> <<>>]
    /\ pushed = [r \in Runs |-> <<>>]
    /\ outcome = [r \in Runs |-> "none"]
    /\ path = [r \in Runs |-> "none"]
    /\ stopReq = [r \in Runs |-> FALSE]

(***************************************************************************)
(* State of the other components: the output parser run on its own, the    *)
(* chat handler of GradioApp, and the DeviceManager.  The task relay       *)
(* leaves it alone.                                                        *)
(***************************************************************************)
VARIABLES
    lines,          \* parser: the output_lines the for loop has consumed
    pst,            \* parser: current_section, section_content, events put
    pdone           \* parser: _parse_agent_output has returned

parserVars == <<lines, pst, pdone>>

ParserInit ==
    /\ lines = <<>>
    /\ pst = [section |-> NoSection, content |-> <<>>, out |-> <<>>]
    /\ pdone = FALSE

VARIABLES
    agent_wrapper,  \* chat: GradioApp.agent_wrapper is not None
    current_config, \* chat: GradioApp.current_config
    chat_history,   \* chat: the history list the handler is given and mutates
    chat_out,       \* chat: the histories the latest chat_with_agent yielded
    chat_msg,       \* chat: the message of the latest chat_with_agent call
    chat_calls,     \* history: number of chat_with_agent calls
    run_calls       \* history: the task texts run_task_async was invoked with

chatVars == <<agent_wrapper, current_config, chat_history, chat_out, chat_msg,
              chat_calls, run_calls>>

\* AgentConfig: the fields validate() reads.
Config(base_url, model, device_type, max_steps) ==
    [base_url |-> base_url, model |-> model, device_type |-> device_type,
     max_steps |-> max_steps]

\* The values update_config and AgentConfig.from_env fall back to.
DefaultConfig == Config(<<"d">>, <<"d">>, "adb", 100)

ChatInit ==
    /\ agent_wrapper = FALSE
    /\ current_config = DefaultConfig
    /\ chat_history = <<>>
    /\ chat_out = <<>>
    /\ chat_msg = <<>>
    /\ chat_calls = 0
    /\ run_calls = <<>>

VARIABLES
    wrapper_agent,  \* config: agent_wrapper.agent is not None
    create_calls    \* history: the configurations _create_agent was invoked
                    \* with

configVars == <<wrapper_agent, create_calls>>

ConfigInit ==
    /\ wrapper_agent = FALSE
    /\ create_calls = <<>>

\* Monitor loop threads one DeviceManager may be asked to start.
MaxMonitors == 2

\* Threads calling into the DeviceManager, and the monitor loop threads.
CallerThreads == {1, 2}

MonitorThreads == 3..(2 + MaxMonitors)

Threads == CallerThreads \cup MonitorThreads

\* self._scan_interval = 5.0, in clock ticks of 2.5 seconds.
ScanInterval == 2

VARIABLES
    now,               \* device: what time.time() returns
    devices_cache,     \* device: self._devices_cache
    last_scan_time,    \* device: self._last_scan_time
    scan_interval,     \* device: self._scan_interval
    status_callbacks,  \* device: self._status_callbacks
    monitoring_active, \* device: self._monitoring_active
    monitoring_thread, \* device: self._monitoring_thread (0: None)
    sc,                \* device, per thread: frame of its scan_devices call
    mon,               \* device, per thread: where it is in start_monitoring,
                       \* stop_monitoring or monitor_loop
    prev_listing       \* history: the device ids of the latest listing

devVars == <<now, devices_cache, last_scan_time, scan_interval,
             status_callbacks, monitoring_active, monitoring_thread, sc, mon,
             prev_listing>>

\* A dict with no keys.
EmptyDict == [d \in {} |-> 0]

\* The (ok, message) of check_device_connection, with the count the message
\* reports; here: no such call was made.
NoResult == [ok |-> FALSE, msg |-> "none", count |-> 0]

\* The frame of a thread that has made no call yet.
NoCall ==
    [pc |-> "idle", op |-> "none", force |-> FALSE, time |-> 0, lists |-> 0,
     new |-> EmptyDict, old |-> {}, changed |-> FALSE, notified |-> <<>>,
     outcome |-> "none",
     ret |-> EmptyDict, want |-> "", result |-> NoResult]

DeviceInit ==
    /\ now = ScanInterval
    /\ devices_cache = EmptyDict
    /\ last_scan_time = 0
    /\ scan_interval = ScanInterval
    /\ status_callbacks = <<>>
    /\ monitoring_active = FALSE
    /\ monitoring_thread = 0
    /\ sc = [t \in Threads |-> NoCall]
    /\ mon = [t \in Threads |-> "none"]
    /\ prev_listing = {}

\* The reentrant call no callback is making.
NoCallback == [op |-> "none", arg |-> "", pc |-> "none"]

VARIABLES
    lock,   \* lock: the thread inside a `with self._lock` block (0: none)
    cbk     \* lock, per thread: its add_status_callback or
            \* remove_status_callback call, or the call into the
            \* DeviceManager that the callback it is running has made

lockVars == <<lock, cbk>>

LockInit ==
    /\ lock = 0
    /\ cbk = [t \in Threads |-> NoCallback]

\* The DeviceInfo objects scan_devices creates are at most MaxObjects.
MaxObjects == 4

VARIABLES
    heap,         \* objects: the DeviceInfo objects created, by reference
    cache_refs,   \* objects: self._devices_cache, device id -> reference
    held,         \* objects: the value a caller was handed and keeps
    snap_op       \* objects: the operation of the last step

snapVars == <<heap, cache_refs, held, snap_op>>

\* A handed-out value: the references it holds (a dict, or one DeviceInfo
\* under its device id) and the DeviceInfo values the caller has seen in it.
Handed(refs, objects) ==
    [refs |-> refs, seen |-> [d \in DOMAIN refs |-> objects[refs[d]]]]

SnapshotInit ==
    /\ heap = <<>>
    /\ cache_refs = EmptyDict
    /\ held = Handed(EmptyDict, <<>>)
    /\ snap_op = "none"

VARIABLES
    sys_stdout,       \* capture: sys.stdout (0: the original stream, r: the
                      \* captured_output of run r)
    old_targets,      \* capture: per run, the stream redirect_stdout saved
    captured_output,  \* capture: per run, the lines written to its StringIO
    wpc,              \* capture: per run, where run_agent_with_steps is
    written,          \* capture: per run, the lines agent.run has printed
    parsed            \* capture: per run, the events _parse_agent_output put
                      \* on the run's step_queue

captureVars ==
    <<sys_stdout, old_targets, captured_output, wpc, written, parsed>>

CaptureInit ==
    /\ sys_stdout = 0
    /\ old_targets = [r \in Runs |-> 0]
    /\ captured_output = [r \in Runs |-> <<>>]
    /\ wpc = [r \in Runs |-> "none"]
    /\ written = [r \in Runs |-> 0]
    /\ parsed = [r \in Runs |-> <<>>]

OtherVars ==
    <<parserVars, chatVars, configVars, devVars, lockVars, snapVars,
      captureVars>>

\* What the steps of one component leave alone.
OutsideParser ==
    <<vars, chatVars, configVars, devVars, lockVars, snapVars, captureVars>>

OutsideChat == <<vars, parserVars, devVars, lockVars, snapVars, captureVars>>

OutsideManager ==
    <<vars, parserVars, chatVars, configVars, snapVars, captureVars>>

OutsideSnapshot ==
    <<vars, parserVars, chatVars, configVars, devVars, lockVars, captureVars>>

OutsideCapture ==
    <<vars, parserVars, chatVars, configVars, devVars, lockVars, snapVars>>

\* The steps that take a `with self._lock` block as a whole leave no trace
\* on the lock.
OutsideDevice == <<OutsideManager, lockVars>>

InitAll ==
    /\ Init
    /\ ParserInit
    /\ ChatInit
    /\ ConfigInit
    /\ DeviceInit
    /\ LockInit
    /\ SnapshotInit
    /\ CaptureInit

Terminal == {"success", "error", "stop"}

\* Generator positions after the start event and before the terminal event.
MidRun == {"y_start", "loop", "drain"}

Last(s) == s[Len(s)]

Yield(r, ev) == events' = [events EXCEPT ![r] = Append(@, ev)]

Goto(r, pc) == gpc' = [gpc EXCEPT ![r] = pc]

WorkerVars == <<agent_thread, step_queue, result_queue, error_queue, topush,
                output, pushed, outcome>>

(***************************************************************************)
(* run_task_async, the generator frame of run r.                           *)
(***************************************************************************)

\* self.is_running = True.  Runs are numbered in the order they are entered.
Enter(r) ==
    /\ gpc[r] = "new"
    /\ IF r = 1 THEN TRUE ELSE gpc[r - 1] # "new"
    /\ is_running' = TRUE
    /\ Goto(r, "clr")
    /\ UNCHANGED <<stop_event, agent, events, path, stopReq>>
    /\ UNCHANGED WorkerVars
    /\ UNCHANGED OtherVars

\* CreateAgentFails without the return after the yield: the generator goes
\* on as if the agent existed.
CreateAgentFails_NoReturn(r) ==
    /\ gpc[r] = "clr"
    /\ stop_event' = FALSE
    /\ ~agent
    /\ Yield(r, Ev("error", <<>>, 0))
    /\ Goto(r, "y_start")
    /\ path' = [path EXCEPT ![r] = "create_failed"]
    /\ UNCHANGED <<is_running, agent, stopReq>>
    /\ UNCHANGED WorkerVars
    /\ UNCHANGED OtherVars

\* self._stop_event.clear(); not self.agent, and _create_agent() returns
\* (False, msg): yield the error event.
CreateAgentFails(r) ==
    /\ gpc[r] = "clr"
    /\ stop_event' = FALSE
    /\ ~agent
    /\ Yield(r, Ev("error", <<>>, 0))
    /\ Goto(r, "y_term")
    /\ path' = [path EXCEPT ![r] = "create_failed"]
    /\ UNCHANGED <<is_running, agent, stopReq>>
    /\ UNCHANGED WorkerVars
    /\ UNCHANGED OtherVars

\* YieldStart without the yield: the generator goes on to start the worker
\* thread with no start event emitted.
YieldStart_NoYield(r) ==
    /\ gpc[r] = "clr"
    /\ stop_event' = FALSE
    /\ agent' = TRUE
    /\ Goto(r, "y_start")
    /\ path' = [path EXCEPT ![r] = "started"]
    /\ UNCHANGED <<is_running, events, stopReq>>
    /\ UNCHANGED WorkerVars
    /\ UNCHANGED OtherVars

\* YieldStart without self._stop_event.clear().
YieldStart_NoClear(r) ==
    /\ gpc[r] = "clr"
    /\ agent' = TRUE
    /\ Yield(r, Ev("start", <<>>, 0))
    /\ Goto(r, "y_start")
    /\ path' = [path EXCEPT ![r] = "started"]
    /\ UNCHANGED <<is_running, stop_event, stopReq>>
    /\ UNCHANGED WorkerVars
    /\ UNCHANGED OtherVars

\* self._stop_event.clear(); self.agent exists or _create_agent() sets it:
\* yield the start event.
YieldStart(r) ==
    /\ gpc[r] = "clr"
    /\ stop_event' = FALSE
    /\ agent' = TRUE
    /\ Yield(r, Ev("start", <<>>, 0))
    /\ Goto(r, "y_start")
    /\ path' = [path EXCEPT ![r] = "started"]
    /\ UNCHANGED <<is_running, stopReq>>
    /\ UNCHANGED WorkerVars
    /\ UNCHANGED OtherVars

\* The three queues are created and agent_thread.start() succeeds.
StartThread(r) ==
    /\ gpc[r] = "y_start"
    /\ agent_thread' = [agent_thread EXCEPT ![r] = "run"]
    /\ Goto(r, "loop")
    /\ UNCHANGED <<is_running, stop_event, agent, events, path, stopReq>>
    /\ UNCHANGED <<step_queue, result_queue, error_queue, topush, output,
                   pushed, outcome>>
    /\ UNCHANGED OtherVars

\* agent_thread.start() raises: the except clause yields an error event.
ThreadStartFails(r) ==
    /\ gpc[r] = "y_start"
    /\ Yield(r, Ev("error", <<>>, 0))
    /\ Goto(r, "y_term")
    /\ path' = [path EXCEPT ![r] = "thread_failed"]
    /\ UNCHANGED <<is_running, stop_event, agent, stopReq>>
    /\ UNCHANGED WorkerVars
    /\ UNCHANGED OtherVars

\* Polling loop, thread alive and no stop: step_queue.get_nowait() and yield.
\* (queue.Empty followed by the sleep changes nothing.)
LoopYield(r) ==
    /\ gpc[r] = "loop"
    /\ agent_thread[r] # "dead"
    /\ ~stop_event
    /\ step_queue[r] # <<>>
    /\ Yield(r, Head(step_queue[r]))
    /\ step_queue' = [step_queue EXCEPT ![r] = Tail(@)]
    /\ UNCHANGED <<is_running, stop_event, agent, gpc, path, stopReq>>
    /\ UNCHANGED <<agent_thread, result_queue, error_queue, topush, output,
                   pushed, outcome>>
    /\ UNCHANGED OtherVars

\* The while condition is false: the thread is dead or the stop event is set.
LoopExit(r) ==
    /\ gpc[r] = "loop"
    /\ agent_thread[r] = "dead" \/ stop_event
    /\ Goto(r, "drain")
    /\ UNCHANGED <<is_running, stop_event, agent, events, path, stopReq>>
    /\ UNCHANGED WorkerVars
    /\ UNCHANGED OtherVars

\* DrainYield taking the newest queued event instead of the oldest.
DrainYield_Lifo(r) ==
    /\ gpc[r] = "drain"
    /\ step_queue[r] # <<>>
    /\ Yield(r, Last(step_queue[r]))
    /\ step_queue' = [step_queue EXCEPT ![r] = SubSeq(@, 1, Len(@) - 1)]
    /\ UNCHANGED <<is_running, stop_event, agent, gpc, path, stopReq>>
    /\ UNCHANGED <<agent_thread, result_queue, error_queue, topush, output,
                   pushed, outcome>>
    /\ UNCHANGED OtherVars

\* while not step_queue.empty(): yield step_queue.get_nowait()
DrainYield(r) ==
    /\ gpc[r] = "drain"
    /\ step_queue[r] # <<>>
    /\ Yield(r, Head(step_queue[r]))
    /\ step_queue' = [step_queue EXCEPT ![r] = Tail(@)]
    /\ UNCHANGED <<is_running, stop_event, agent, gpc, path, stopReq>>
    /\ UNCHANGED <<agent_thread, result_queue, error_queue, topush, output,
                   pushed, outcome>>
    /\ UNCHANGED OtherVars

\* The event of the result_queue / error_queue / else chain.
ResultEvent(r) ==
    IF result_queue[r] # <<>> THEN Ev("success", <<>>, Head(result_queue[r]))
    ELSE IF error_queue[r] # <<>> THEN Ev("error", <<>>, Head(error_queue[r]))
    ELSE Ev("unknown", <<>>, 0)

\* The result_queue.get() or error_queue.get() of that chain.
TakeResult(r) ==
    IF result_queue[r] # <<>>
    THEN /\ result_queue' = [result_queue EXCEPT ![r] = Tail(@)]
         /\ UNCHANGED error_queue
    ELSE IF error_queue[r] # <<>>
    THEN /\ error_queue' = [error_queue EXCEPT ![r] = Tail(@)]
         /\ UNCHANGED result_queue
    ELSE UNCHANGED <<result_queue, error_queue>>

\* YieldStop without the drain loop before it: the stop event is yielded
\* whatever step_queue still holds.
YieldStop_NoDrain(r) ==
    /\ gpc[r] = "drain"
    /\ stop_event
    /\ Yield(r, Ev("stop", <<>>, 0))
    /\ Goto(r, "y_term")
    /\ UNCHANGED <<is_running, stop_event, agent, path, stopReq>>
    /\ UNCHANGED WorkerVars
    /\ UNCHANGED OtherVars

\* YieldStop without the return after the yield: the generator goes on to
\* the result chain and yields its event too.
YieldStop_NoReturn(r) ==
    /\ gpc[r] = "drain"
    /\ step_queue[r] = <<>>
    /\ stop_event
    /\ events' = [events EXCEPT
                     ![r] = Append(Append(@, Ev("stop", <<>>, 0)), ResultEvent(r))]
    /\ TakeResult(r)
    /\ Goto(r, "y_term")
    /\ UNCHANGED <<is_running, stop_event, agent, path, stopReq>>
    /\ UNCHANGED <<agent_thread, step_queue, topush, output, pushed, outcome>>
    /\ UNCHANGED OtherVars

\* step_queue.empty(), and self._stop_event.is_set(): yield the stop event.
YieldStop(r) ==
    /\ gpc[r] = "drain"
    /\ step_queue[r] = <<>>
    /\ stop_event
    /\ Yield(r, Ev("stop", <<>>, 0))
    /\ Goto(r, "y_term")
    /\ UNCHANGED <<is_running, stop_event, agent, path, stopReq>>
    /\ UNCHANGED WorkerVars
    /\ UNCHANGED OtherVars

\* step_queue.empty(), self._stop_event.is_set() is false: the result_queue /
\* error_queue / else chain and its yield.
YieldResult(r) ==
    /\ gpc[r] = "drain"
    /\ step_queue[r] = <<>>
    /\ ~stop_event
    /\ Yield(r, ResultEvent(r))
    /\ TakeResult(r)
    /\ Goto(r, "y_term")
    /\ UNCHANGED <<is_running, stop_event, agent, path, stopReq>>
    /\ UNCHANGED <<agent_thread, step_queue, topush, output, pushed, outcome>>
    /\ UNCHANGED OtherVars

\* Finally without the finally clause: is_running is left as it is.
Finally_NoClear(r) ==
    /\ gpc[r] = "y_term"
    /\ Goto(r, "done")
    /\ UNCHANGED <<is_running, stop_event, agent, events, path, stopReq>>
    /\ UNCHANGED WorkerVars
    /\ UNCHANGED OtherVars

\* The generator is resumed after its last yield: return, and the finally
\* clause sets self.is_running = False.
Finally(r) ==
    /\ gpc[r] = "y_term"
    /\ is_running' = FALSE
    /\ Goto(r, "done")
    /\ UNCHANGED <<stop_event, agent, events, path, stopReq>>
    /\ UNCHANGED WorkerVars
    /\ UNCHANGED OtherVars

(***************************************************************************)
(* run_agent_with_steps, the worker thread of run r.                       *)
(***************************************************************************)

GenVars == <<is_running, stop_event, agent, gpc, events, path, stopReq>>

\* self.agent.run(task) returns having written out; _parse_agent_output is
\* entered with the captured lines.
AgentReturns(r, out) ==
    /\ agent_thread[r] = "run"
    /\ output' = [output EXCEPT ![r] = out]
    /\ topush' = [topush EXCEPT ![r] = ParseAgentOutput(out)]
    /\ outcome' = [outcome EXCEPT ![r] = "returned"]
    /\ agent_thread' = [agent_thread EXCEPT ![r] = "parse"]
    /\ UNCHANGED <<step_queue, result_queue, error_queue, pushed>>
    /\ UNCHANGED GenVars
    /\ UNCHANGED OtherVars

\* One step_queue.put of _parse_agent_output.
PutStep(r) ==
    /\ agent_thread[r] = "parse"
    /\ topush[r] # <<>>
    /\ step_queue' = [step_queue EXCEPT ![r] = Append(@, Head(topush[r]))]
    /\ pushed' = [pushed EXCEPT ![r] = Append(@, Head(topush[r]))]
    /\ topush' = [topush EXCEPT ![r] = Tail(@)]
    /\ UNCHANGED <<agent_thread, result_queue, error_queue, output, outcome>>
    /\ UNCHANGED GenVars
    /\ UNCHANGED OtherVars

\* result_queue.put(result), and the thread ends.
PutResult(r) ==
    /\ agent_thread[r] = "parse"
    /\ topush[r] = <<>>
    /\ result_queue' = [result_queue EXCEPT ![r] = Append(@, r)]
    /\ agent_thread' = [agent_thread EXCEPT ![r] = "dead"]
    /\ UNCHANGED <<step_queue, error_queue, topush, output, pushed, outcome>>
    /\ UNCHANGED GenVars
    /\ UNCHANGED OtherVars

\* AgentRaises that parses what agent.run had written before it raised.
AgentRaises_Parses(r, out) ==
    /\ agent_thread[r] = "run"
    /\ output' = [output EXCEPT ![r] = out]
    /\ topush' = [topush EXCEPT ![r] = ParseAgentOutput(out)]
    /\ outcome' = [outcome EXCEPT ![r] = "raised"]
    /\ agent_thread' = [agent_thread EXCEPT ![r] = "parse"]
    /\ UNCHANGED <<step_queue, result_queue, error_queue, pushed>>
    /\ UNCHANGED GenVars
    /\ UNCHANGED OtherVars

\* self.agent.run(task) raises having written out: the except clause puts the
\* failure on error_queue, and the thread ends.
AgentRaises(r, out) ==
    /\ agent_thread[r] = "run"
    /\ output' = [output EXCEPT ![r] = out]
    /\ outcome' = [outcome EXCEPT ![r] = "raised"]
    /\ error_queue' = [error_queue EXCEPT ![r] = Append(@, r)]
    /\ agent_thread' = [agent_thread EXCEPT ![r] = "dead"]
    /\ UNCHANGED <<step_queue, result_queue, topush, pushed>>
    /\ UNCHANGED GenVars
    /\ UNCHANGED OtherVars

(***************************************************************************)
(* stop_task, and its caller in the UI.                                    *)
(***************************************************************************)

\* History only: which runs the stop_task call falls into.
NoteStop ==
    stopReq' = [r \in Runs |-> stopReq[r] \/ gpc[r] \in MidRun]

\* StopTask that also ends the worker threads.
StopTask_Kill ==
    /\ stop_event' = TRUE
    /\ is_running' = FALSE
    /\ NoteStop
    /\ agent_thread' = [r \in Runs |->
                          IF agent_thread[r] = "none" THEN "none" ELSE "dead"]
    /\ UNCHANGED <<agent, gpc, events, path>>
    /\ UNCHANGED <<step_queue, result_queue, error_queue, topush, output,
                   pushed, outcome>>
    /\ UNCHANGED OtherVars

\* self._stop_event.set(); self.is_running = False
StopTask ==
    /\ stop_event' = TRUE
    /\ is_running' = FALSE
    /\ NoteStop
    /\ UNCHANGED <<agent, gpc, events, path>>
    /\ UNCHANGED WorkerVars
    /\ UNCHANGED OtherVars

\* GradioApp.stop_current_task: stop_task() only if is_running.
StopCurrentTask ==
    /\ is_running
    /\ StopTask

Worker(r) ==
    \/ \E out \in AgentOutputs : AgentReturns(r, out)
    \/ \E out \in AgentOutputs : AgentRaises(r, out)
    \/ PutStep(r)
    \/ PutResult(r)

Generator(r) ==
    \/ Enter(r)
    \/ CreateAgentFails(r)
    \/ YieldStart(r)
    \/ StartThread(r)
    \/ ThreadStartFails(r)
    \/ LoopYield(r)
    \/ LoopExit(r)
    \/ DrainYield(r)
    \/ YieldStop(r)
    \/ YieldResult(r)
    \/ Finally(r)

Next ==
    \/ \E r \in Runs : Generator(r)
    \/ \E r \in Runs : Worker(r)
    \/ StopTask
    \/ StopCurrentTask

Spec == InitAll /\ [][Next]_vars

\* The worker thread is scheduled as long as it can take a step, and
\* agent.run is taken to end.
FairSpec == Spec /\ \A r \in Runs : WF_vars(Worker(r))

(***************************************************************************)
(* Properties.                                                             *)
(***************************************************************************)

\* The run's last yield has happened (terminal event, or the unknown one).
Concluded(r) == gpc[r] \in {"y_term", "done"}

\* No run is in progress.
Quiescent == \A r \in Runs : gpc[r] \in {"new", "done"}

\* The events between the first and the last one.
Middle(s) == SubSeq(s, 2, Len(s) - 1)

TerminalCount(s) == Cardinality({i \in 1..Len(s) : s[i].kind \in Terminal})

\* C1: a run with a worker thread during which stop_task was called after
\* its start event and before its terminal event ends with a stop event, and
\* holds no success or error event.
C1_StopEndsWithStop ==
    \A r \in Runs :
        (Concluded(r) /\ stopReq[r] /\ agent_thread[r] # "none") =>
            /\ Last(events[r]).kind = "stop"
            /\ \A i \in 1..Len(events[r]) :
                   events[r][i].kind \notin {"success", "error"}

\* C2: at most one worker thread of the instance is executing agent.run.
C2_AtMostOneRunning ==
    Cardinality({r \in Runs : agent_thread[r] = "run"}) <= 1

\* C3: a success, error or stop event is the last event of its sequence.
C3_TerminalIsLast ==
    \A r \in Runs :
        \A i \in 1..(Len(events[r]) - 1) : events[r][i].kind \notin Terminal

C3_Witness ==
    \E r \in Runs :
        /\ gpc[r] = "done"
        /\ Len(events[r]) >= 3
        /\ Last(events[r]).kind \in Terminal

\* C4: a concluded sequence ends with one terminal event of kind success,
\* error or stop, never with the unknown event.
C4_OneTerminalOutcome ==
    \A r \in Runs :
        Concluded(r) =>
            /\ Last(events[r]).kind \in Terminal
            /\ TerminalCount(events[r]) = 1

\* C5: in a run with no stop request between its start and terminal events,
\* the events between start and the terminal success/error are exactly the
\* events the parser put on step_queue, each once, in order.
C5_ParsedDeliveredInOrder ==
    \A r \in Runs :
        (Concluded(r) /\ ~stopReq[r] /\ path[r] # "create_failed") =>
            /\ Len(events[r]) >= 2
            /\ events[r][1].kind = "start"
            /\ Middle(events[r]) = pushed[r]
            /\ Last(events[r]).kind \in {"success", "error"}
            /\ outcome[r] = "returned" => pushed[r] = ParseAgentOutput(output[r])

C5_Witness ==
    \E r \in Runs :
        /\ gpc[r] = "done"
        /\ ~stopReq[r]
        /\ Len(pushed[r]) = 2
        /\ Len(events[r]) = 4
        /\ Last(events[r]).kind = "success"

\* C6: also when agent.run raises, the captured output is parsed and the
\* parsed events are delivered before the terminal error event.
C6_RaisedOutputParsed ==
    \A r \in Runs :
        (Concluded(r) /\ ~stopReq[r] /\ outcome[r] = "raised") =>
            /\ pushed[r] = ParseAgentOutput(output[r])
            /\ Middle(events[r]) = ParseAgentOutput(output[r])

\* C7: a run whose agent construction failed yields the error event and
\* nothing else, and starts no worker thread.
C7_CreateFailureSingleError ==
    \A r \in Runs :
        path[r] = "create_failed" =>
            /\ events[r] = <<Ev("error", <<>>, 0)>>
            /\ agent_thread[r] = "none"
            /\ pushed[r] = <<>>

C7_Witness ==
    \E r \in Runs : path[r] = "create_failed" /\ gpc[r] = "done"

\* C8: is_running is set true by the entry of a run and is false when the
\* run's generator has ended, by whichever path.
C8_RunningClearedOnExit ==
    [][\A r \in Runs :
          /\ (gpc[r] = "new" /\ gpc'[r] # "new") => is_running'
          /\ (gpc[r] # "done" /\ gpc'[r] = "done") => ~is_running']_vars

\* Both runs have ended, one by the construction failure, one by the
\* exception of the driving logic.
C8_Witness ==
    /\ gpc[1] = "done" /\ path[1] = "create_failed"
    /\ gpc[2] = "done" /\ path[2] = "thread_failed"
    /\ ~is_running

\* The run's sequence has ended with the stop event.
StoppedRun(r) == Concluded(r) /\ Last(events[r]).kind = "stop"

C9_Safe ==
    \A r \in Runs :
        /\ agent_thread[r] = "dead" => outcome[r] # "none"
        /\ StoppedRun(r) =>
               \A q \in Runs : \A i \in 1..Len(events[q]) : events[q][i].src # r

\* C9: a worker thread ends only by agent.run returning or raising; the
\* worker of a stopped run goes on until it has ended that way, and what it
\* produces is in no event sequence.
C9_WorkerRunsOn ==
    /\ []C9_Safe
    /\ \A r \in Runs :
           (StoppedRun(r) /\ agent_thread[r] # "dead")
               ~> (agent_thread[r] = "dead" /\ outcome[r] # "none")

\* The run has ended with stop, and its worker has put its result since.
C9_Witness ==
    \E r \in Runs :
        /\ gpc[r] = "done"
        /\ events[r] = <<Ev("start", <<>>, 0), Ev("stop", <<>>, 0)>>
        /\ agent_thread[r] = "dead"
        /\ result_queue[r] = <<r>>
        /\ Len(pushed[r]) = 2

\* C10: while no run is in progress is_running is false, whatever stop_task
\* calls were made; a stop request made before a run's start event is not
\* seen by that run; and a run with no stop_task call between its start and
\* terminal events does not end with stop but with the agent's outcome.
C10_IdleStopNoEffect ==
    /\ Quiescent => ~is_running
    /\ \A r \in Runs :
           (gpc[r] \in MidRun /\ ~stopReq[r]) => ~stop_event
    /\ \A r \in Runs :
           (Concluded(r) /\ ~stopReq[r]) =>
               /\ Last(events[r]).kind # "stop"
               /\ outcome[r] = "returned" =>
                      Last(events[r]) = Ev("success", <<>>, r)
               /\ outcome[r] = "raised" =>
                      Last(events[r]) = Ev("error", <<>>, r)

\* stop_task was called before the first run was entered, and that run has
\* been entered with the stop event still set.
C10_Witness ==
    /\ gpc[1] = "clr"
    /\ \A r \in Runs \ {1} : gpc[r] = "new"
    /\ stop_event
    /\ is_running

\* The positions of the start events in a sequence.
StartPositions(s) == {i \in 1..Len(s) : s[i].kind = "start"}

\* The worker thread of the run exists, or something of it does.
WorkerTrace(r) ==
    \/ agent_thread[r] # "none"
    \/ pushed[r] # <<>>
    \/ result_queue[r] # <<>>
    \/ error_queue[r] # <<>>

\* C24: a run whose agent exists or was constructed has exactly one start
\* event, as the first event of its sequence, and it is there before the
\* worker thread is started or has produced anything; a run whose agent
\* construction failed has none.
C24_StartFirstBeforeWorker ==
    \A r \in Runs :
        /\ path[r] \in {"started", "thread_failed"} =>
               StartPositions(events[r]) = {1}
        /\ WorkerTrace(r) => StartPositions(events[r]) = {1}
        /\ path[r] \in {"none", "create_failed"} =>
               StartPositions(events[r]) = {}

\* The second run found the agent of the first one, and its worker has put
\* its two events and its result.
C24_Witness ==
    /\ gpc[1] = "done"
    /\ path[2] = "started"
    /\ agent_thread[2] = "dead"
    /\ Len(pushed[2]) = 2
    /\ result_queue[2] # <<>>
    /\ StartPositions(events[2]) = {1}

\* An event _parse_agent_output puts on step_queue.
IsParserEvent(e) ==
    e.kind \in {"thinking", "performance", "action", "takeover"}

\* The parser events the consumer of the run has been given.
Delivered(r) == SelectSeq(events[r], IsParserEvent)

IsPrefix(s, t) == Len(s) <= Len(t) /\ SubSeq(t, 1, Len(s)) = s

\* C25: at any moment the parser events delivered, followed by the events
\* still in step_queue, are the events the worker has put, so the delivered
\* ones are a prefix of them, in order, each once; the terminal event is
\* yielded only when step_queue is empty, every event buffered when the
\* polling loop ended having been yielded before it; and between the first
\* and the last event of a concluded sequence are the delivered events.
C25_DeliveredPrefixDrained ==
    /\ [](\A r \in Runs :
             /\ Delivered(r) \o step_queue[r] = pushed[r]
             /\ IsPrefix(Delivered(r), pushed[r])
             /\ Concluded(r) => Middle(events[r]) = Delivered(r))
    /\ [][\A r \in Runs :
             (gpc[r] = "drain" /\ gpc'[r] = "y_term") =>
                 /\ step_queue[r] = <<>>
                 /\ Delivered(r) = pushed[r]
                 /\ events'[r] = <<Ev("start", <<>>, 0)>> \o pushed[r]
                                     \o <<Last(events'[r])>>]_vars

\* A stopped run: both buffered events were yielded, then the stop event.
C25_Witness ==
    \E r \in Runs :
        /\ gpc[r] = "done"
        /\ stopReq[r]
        /\ Len(events[r]) = 4
        /\ Last(events[r]).kind = "stop"
        /\ Middle(events[r]) = pushed[r]

\* C32: as long as agent.run of a run has not returned normally, no parser
\* event of the run is on its step_queue or among its yielded events; a run
\* that yields its stop event while agent.run still executes consists of the
\* start event and the stop event.
C32_ParserEventsAfterRun ==
    \A r \in Runs :
        /\ outcome[r] # "returned" =>
               /\ pushed[r] = <<>>
               /\ step_queue[r] = <<>>
               /\ \A i \in 1..Len(events[r]) : ~IsParserEvent(events[r][i])
        /\ (Concluded(r) /\ outcome[r] = "none"
                /\ Last(events[r]).kind = "stop") =>
               events[r] = <<Ev("start", <<>>, 0), Ev("stop", <<>>, 0)>>

\* A run stopped while agent.run executes, beside a run whose parser events
\* were yielded.
C32_Witness ==
    \E r, q \in Runs :
        /\ Concluded(r)
        /\ agent_thread[r] = "run"
        /\ Last(events[r]).kind = "stop"
        /\ outcome[q] = "returned"
        /\ \E i \in 1..Len(events[q]) : IsParserEvent(events[q][i])

\* C33: is_running is true in every state of a run between its start event
\* and the yield of its terminal event.
C33_RunningWhileInProgress ==
    \A r \in Runs : gpc[r] \in MidRun => is_running

\* A stop request is pending for the run: stop_task was called during it and
\* the run has not yet yielded its last event.
StopPending(r) == stopReq[r] /\ gpc[r] \in MidRun

\* C34: a run with a worker thread during which stop_task was called ends
\* with a stop event, and no step clears the stop event while the stop
\* request of a run in progress is pending.
C34_StopRequestNotLost ==
    /\ [](\A r \in Runs :
              (Concluded(r) /\ stopReq[r] /\ agent_thread[r] # "none") =>
                  Last(events[r]).kind = "stop")
    /\ [][\A r \in Runs :
              (StopPending(r) /\ stop_event /\ StopPending(r)') =>
                  stop_event']_vars

(***************************************************************************)
(* _parse_agent_output on arbitrary captured output: the for loop consumes *)
(* one line per step, then the last section is handled.                    *)
(***************************************************************************)

\* Longest captured output fed to the parser.
MaxLines == 4

ThinkPayloadLine == Line({"think"}, FALSE, 1)
ActLine == Line({"act"}, FALSE, 0)
ParsingActionLine == Line({"parse"}, FALSE, 3)
TakeoverLine == Line({"take"}, FALSE, 0)
DividerLine == Line({}, TRUE, 0)
BlankLine == Line({}, FALSE, 0)

\* The kinds of line the agent's verbose output is made of.
InputLines ==
    { ThinkLine, ThinkPayloadLine, PerfLine, ActLine, ParsingActionLine,
      TakeoverLine, DividerLine, BlankLine, TextLine(1), TextLine(2) }

\* One iteration of the for loop over output_lines.
ParserFeed(line) ==
    /\ ~pdone
    /\ Len(lines) < MaxLines
    /\ lines' = Append(lines, line)
    /\ pst' = ParseLine(pst, line)
    /\ UNCHANGED pdone
    /\ UNCHANGED OutsideParser

\* The loop is over: the last section is handled and the method returns.
ParserEnd ==
    /\ ~pdone
    /\ pst' = [pst EXCEPT !.out = ParseAgentOutput(lines)]
    /\ pdone' = TRUE
    /\ UNCHANGED lines
    /\ UNCHANGED OutsideParser

ParserNext ==
    \/ \E line \in InputLines : ParserFeed(line)
    \/ ParserEnd

ParserSpec == InitAll /\ [][ParserNext]_parserVars

\* A line that is appended to section_content inside a section.
IsContent(line) == line.marks = {} /\ ~line.dash /\ line.txt # 0

\* A line that opens or ends a section.
IsSectionMarker(line) == line.marks \cap {"think", "perf", "act"} # {}

SectionKind(line) ==
    IF "think" \in line.marks THEN "thinking"
    ELSE IF "perf" \in line.marks THEN "performance"
    ELSE "action"

\* The content lines of the section opened at position i: those up to the
\* next section marker or the end of the input.
RECURSIVE ContentFrom(_, _)
ContentFrom(ls, i) ==
    IF i > Len(ls) \/ IsSectionMarker(ls[i]) THEN <<>>
    ELSE IF IsContent(ls[i]) THEN <<ls[i].txt>> \o ContentFrom(ls, i + 1)
    ELSE ContentFrom(ls, i + 1)

\* One event per thinking or performance section of ls (from position i on)
\* that has content, in the order the sections open.
RECURSIVE SectionEvents(_, _)
SectionEvents(ls, i) ==
    IF i > Len(ls) THEN <<>>
    ELSE IF IsSectionMarker(ls[i]) /\ SectionKind(ls[i]) # "action"
            /\ ContentFrom(ls, i + 1) # <<>>
    THEN <<Ev(SectionKind(ls[i]), ContentFrom(ls, i + 1), 0)>>
             \o SectionEvents(ls, i + 1)
    ELSE SectionEvents(ls, i + 1)

IsSectionEvent(e) == e.kind \in {"thinking", "performance"}

\* C12: when the parser has returned, the thinking and performance events it
\* has put are exactly one per opened section with content, whatever ended
\* the section, in the order the sections were opened.
C12_EverySectionFlushedOnce ==
    pdone => SelectSeq(pst.out, IsSectionEvent) = SectionEvents(lines, 1)

\* The input is a thinking marker line with text after the marker, then
\* plain content lines, then a performance marker line.
ThinkingThenPerformance ==
    /\ ~pdone
    /\ Len(lines) >= 3
    /\ lines[1] = ThinkPayloadLine
    /\ lines[Len(lines)] = PerfLine
    /\ \A i \in 2..(Len(lines) - 1) : IsContent(lines[i])

ContentTexts(ls) == [i \in 1..Len(ls) |-> ls[i].txt]

Reads(mark) ==
    /\ Len(lines') = Len(lines) + 1
    /\ mark \in lines'[Len(lines')].marks

\* A performance section with buffered content is open.
PerformanceOpen == pst.section = "performance" /\ pst.content # <<>>

\* C26: reading a thinking marker while a performance section with content
\* is open puts one performance event made of that content, and leaves the
\* parser in the thinking section with nothing buffered.
C26_ThinkingFlushesPerformance ==
    [][(Reads("think") /\ PerformanceOpen) =>
           /\ pst'.out = Append(pst.out, Ev("performance", pst.content, 0))
           /\ pst'.section = "thinking"
           /\ pst'.content = <<>>]_parserVars

\* The events an action marker line is to put: the open performance section's
\* event if it has content, then the action event of the line's payload.
ActionMarkerEvents(line) ==
    (IF PerformanceOpen THEN <<Ev("performance", pst.content, 0)>> ELSE <<>>)
        \o <<Ev("action", <<line.txt>>, 0)>>

\* C27: reading an action marker line (the action section marker, or a
\* "Parsing action:" line) puts exactly one action event made of the line's
\* payload, after the performance event of an open section with content.
C27_ActionMarkerEmitsAction ==
    [][(Reads("act") \/ Reads("parse")) =>
           pst'.out = pst.out \o ActionMarkerEvents(lines'[Len(lines')])]_parserVars

(***************************************************************************)
(* GradioApp: update_config and chat_with_agent.  Texts are sequences of   *)
(* characters.                                                             *)
(***************************************************************************)

\* Longest text typed into the message box.
MaxMsgLen == 2

\* Number of chat_with_agent calls.
MaxChats == 2

Chars == {" ", "a"}

Messages == UNION { [1..n -> Chars] : n \in 0..MaxMsgLen }

IsSpace(c) == c \in {" ", "\t", "\n", "\r"}

RECURSIVE LStrip(_)
LStrip(s) == IF s # <<>> /\ IsSpace(Head(s)) THEN LStrip(Tail(s)) ELSE s

RECURSIVE RStrip(_)
RStrip(s) ==
    IF s # <<>> /\ IsSpace(s[Len(s)]) THEN RStrip(SubSeq(s, 1, Len(s) - 1))
    ELSE s

\* str.strip()
Strip(s) == RStrip(LStrip(s))

\* IsBlank without the strip(): only the empty text is blank.
IsBlank_NoStrip(message) == message = <<>>

\* not message.strip()
IsBlank(message) == Strip(message) = <<>>

\* AgentConfig.validate()
Validate(c) ==
    /\ c.base_url # <<>>
    /\ c.model # <<>>
    /\ c.device_type \in {"adb", "hdc", "ios"}
    /\ c.max_steps > 0

\* What is typed into the configuration form.
Forms ==
    [base_url : {<<>>, <<" ">>, <<"a">>}, model : {<<>>, <<" ">>, <<"a">>},
     device_type : {"adb", "usb"}, max_steps : {0, 100}]

\* new_config of update_config: texts are stripped, empty ones defaulted.
NewConfig(form) ==
    Config(IF form.base_url # <<>> THEN Strip(form.base_url)
                                   ELSE DefaultConfig.base_url,
           IF form.model # <<>> THEN Strip(form.model)
                                ELSE DefaultConfig.model,
           form.device_type, form.max_steps)

\* update_config with a form that fails validate(): nothing is replaced.
UpdateConfigInvalid(form) ==
    /\ ~Validate(NewConfig(form))
    /\ UNCHANGED chatVars
    /\ UNCHANGED configVars
    /\ UNCHANGED OutsideChat

\* UpdateConfigValid without the validate() test: whatever the form holds
\* is installed.
UpdateConfigValid_NoValidate(form) ==
    /\ current_config' = NewConfig(form)
    /\ agent_wrapper' = TRUE
    /\ wrapper_agent' = FALSE
    /\ UNCHANGED <<chat_history, chat_out, chat_msg, chat_calls, run_calls>>
    /\ UNCHANGED create_calls
    /\ UNCHANGED OutsideChat

\* update_config with a valid form: current_config is replaced and
\* agent_wrapper is a new AgentWrapper on it, with no agent yet; the call
\* of get_available_devices that follows raises (AgentWrapper has no such
\* method) and the except clause returns, before test_connection.
UpdateConfigValid(form) ==
    /\ Validate(NewConfig(form))
    /\ current_config' = NewConfig(form)
    /\ agent_wrapper' = TRUE
    /\ wrapper_agent' = FALSE
    /\ UNCHANGED <<chat_history, chat_out, chat_msg, chat_calls, run_calls>>
    /\ UNCHANGED create_calls
    /\ UNCHANGED OutsideChat

\* A chat message dict: role, and the content as its text, the execution
\* log (event kinds) and what follows the log.
Msg(role, text, log, tail) ==
    [role |-> role, text |-> text, log |-> log, tail |-> tail]

\* The event kinds one run_task_async generator can yield to the handler.
RunEventSeqs ==
    { <<"error">>, <<"start", "success">>, <<"start", "thinking", "stop">> }

\* current_response after the i-th event of evs.
ProgressMsg(evs, i) ==
    Msg("assistant", <<>>, SubSeq(evs, 1, i),
        IF evs[i] \in Terminal THEN "none" ELSE "progress")

\* final_response.
FinalMsg(evs) ==
    Msg("assistant", <<>>, evs,
        IF evs[Len(evs)] \in {"error", "stop"} THEN "final_result" ELSE "none")

\* history with its last element replaced.
SetLast(h, m) == [h EXCEPT ![Len(h)] = m]

ChatCalled(message) ==
    /\ chat_calls < MaxChats
    /\ chat_calls' = chat_calls + 1
    /\ chat_msg' = message

\* chat_with_agent, not message.strip(): yield history, "" and return.
ChatRejected(message) ==
    /\ ChatCalled(message)
    /\ IsBlank(message)
    /\ chat_out' = <<chat_history>>
    /\ UNCHANGED <<agent_wrapper, current_config, chat_history, run_calls>>
    /\ UNCHANGED configVars
    /\ UNCHANGED OutsideChat

\* chat_with_agent, not self.agent_wrapper: the message and the request to
\* configure are appended.
ChatNotConfigured(message) ==
    /\ ChatCalled(message)
    /\ ~IsBlank(message)
    /\ ~agent_wrapper
    /\ chat_history' = chat_history
                           \o <<Msg("user", message, <<>>, "none"),
                                Msg("assistant", <<>>, <<>>, "not_configured")>>
    /\ chat_out' = <<chat_history'>>
    /\ UNCHANGED <<agent_wrapper, current_config, run_calls>>
    /\ UNCHANGED configVars
    /\ UNCHANGED OutsideChat

\* chat_with_agent with a task: the user message and the assistant message
\* are appended, run_task_async(message) is invoked and its events evs are
\* folded into the assistant message, one yield per event and a last one.
ChatRun(message, evs) ==
    /\ ChatCalled(message)
    /\ ~IsBlank(message)
    /\ agent_wrapper
    /\ run_calls' = Append(run_calls, message)
    /\ LET h1 == Append(chat_history, Msg("user", message, <<>>, "none"))
           h2 == Append(h1, Msg("assistant", <<>>, <<>>, "starting"))
       IN  /\ chat_history' = SetLast(h2, FinalMsg(evs))
           /\ chat_out' = <<h1, h2>>
                              \o [i \in 1..Len(evs) |->
                                     SetLast(h2, ProgressMsg(evs, i))]
                              \o <<SetLast(h2, FinalMsg(evs))>>
    /\ UNCHANGED <<agent_wrapper, current_config>>
    /\ UNCHANGED configVars
    /\ UNCHANGED OutsideChat

ChatNext ==
    \/ \E form \in Forms : UpdateConfigInvalid(form)
    \/ \E form \in Forms : UpdateConfigValid(form)
    \/ \E message \in Messages : ChatRejected(message)
    \/ \E message \in Messages : ChatNotConfigured(message)
    \/ \E message \in Messages, evs \in RunEventSeqs : ChatRun(message, evs)

ChatSpec == InitAll /\ [][ChatNext]_chatVars

\* C11: a chat_with_agent call whose message is empty or only whitespace
\* does not invoke run_task_async, leaves the history as it was and yields
\* that history once.
C11_BlankTaskRejected ==
    [][(/\ chat_calls' = chat_calls + 1
        /\ \A i \in 1..Len(chat_msg') : IsSpace(chat_msg'[i]))
           => /\ run_calls' = run_calls
              /\ chat_history' = chat_history
              /\ chat_out' = <<chat_history>>]_chatVars

\* A task has run, and the whitespace message sent after it was rejected.
C11_Witness ==
    /\ agent_wrapper
    /\ chat_calls = 2
    /\ chat_msg = <<" ", " ">>
    /\ Len(run_calls) = 1
    /\ chat_out = <<chat_history>>

(***************************************************************************)
(* Agent construction: update_config, and test_connection and               *)
(* run_task_async of the AgentWrapper it installed, up to their call of     *)
(* _create_agent.  The wrapper's config is current_config, the object it    *)
(* was constructed on.                                                      *)
(***************************************************************************)

\* Number of _create_agent invocations followed.
MaxCreates == 2

\* What is typed into the configuration form, with every device type.
ConfigForms ==
    [base_url : {<<>>, <<" ">>, <<"a">>}, model : {<<>>, <<"a">>},
     device_type : {"adb", "hdc", "ios", "usb"}, max_steps : {0, 100}]

ChatUnchanged ==
    UNCHANGED <<chat_history, chat_out, chat_msg, chat_calls, run_calls>>

\* _create_agent is invoked on self.config; PhoneAgent is constructed (ok)
\* or the construction raises.
CreateAgent(ok) ==
    /\ Len(create_calls) < MaxCreates
    /\ create_calls' = Append(create_calls, current_config)
    /\ wrapper_agent' = (ok \/ wrapper_agent)

\* agent_wrapper.test_connection(): validate(), then _create_agent().
TestConnection(ok) ==
    /\ agent_wrapper
    /\ IF Validate(current_config)
       THEN CreateAgent(ok)
       ELSE UNCHANGED configVars
    /\ UNCHANGED <<agent_wrapper, current_config>>
    /\ ChatUnchanged
    /\ UNCHANGED OutsideChat

\* agent_wrapper.run_task_async(task) with self.agent None: _create_agent().
RunTaskCreates(ok) ==
    /\ agent_wrapper
    /\ ~wrapper_agent
    /\ CreateAgent(ok)
    /\ UNCHANGED <<agent_wrapper, current_config>>
    /\ ChatUnchanged
    /\ UNCHANGED OutsideChat

\* agent_wrapper.run_task_async(task) with self.agent set: nothing is
\* constructed.
RunTaskAgentExists ==
    /\ agent_wrapper
    /\ wrapper_agent
    /\ UNCHANGED <<agent_wrapper, current_config>>
    /\ UNCHANGED configVars
    /\ ChatUnchanged
    /\ UNCHANGED OutsideChat

ConfigNext ==
    \/ \E form \in ConfigForms : UpdateConfigInvalid(form)
    \/ \E form \in ConfigForms : UpdateConfigValid(form)
    \/ \E ok \in BOOLEAN : TestConnection(ok)
    \/ \E ok \in BOOLEAN : RunTaskCreates(ok)
    \/ RunTaskAgentExists

ConfigSpec ==
    InitAll /\ [][ConfigNext]_<<agent_wrapper, current_config, configVars>>

\* C23: every configuration _create_agent was invoked with passes
\* validate(), and an installed AgentWrapper holds such a configuration.
C23_CreateOnlyValidated ==
    /\ \A i \in 1..Len(create_calls) : Validate(create_calls[i])
    /\ agent_wrapper => Validate(current_config)

\* _create_agent was invoked by run_task_async on one configuration and,
\* after another update_config, on a different one.
C23_Witness ==
    /\ Len(create_calls) = 2
    /\ create_calls[1] # create_calls[2]
    /\ create_calls[2].device_type = "ios"
    /\ wrapper_agent

(***************************************************************************)
(* DeviceManager.  A DeviceInfo is its status and last_check; a dict is a  *)
(* function on its keys.  Every thread t has the frame sc[t] of its        *)
(* scan_devices call: the call's arguments and locals while it runs, and   *)
(* what it returned once it is over.                                       *)
(***************************************************************************)

\* Latest clock reading.
MaxTime == 4

Devices == {"d1", "d2"}

\* device.status as list_devices reports it.
RawStatuses == {"device", "unauthorized", "offline", "recovery"}

\* What factory.list_devices() can return: some devices, each with a status.
Listings == UNION { [ds -> RawStatuses] : ds \in SUBSET Devices }

\* The device ids check_device_connection is asked about ("": none).
Wanted == {"", "d1"}

\* The callbacks that get registered: one that returns, one that raises.
Callbacks == {"cb_ok", "cb_raise"}

DeviceInfo(status, last_check) == [status |-> status, last_check |-> last_check]

\* The status conversion of scan_devices.
MapStatus(raw) ==
    IF raw = "device" THEN "connected"
    ELSE IF raw = "unauthorized" THEN "unauthorized"
    ELSE IF raw = "offline" THEN "offline"
    ELSE "unknown"

\* new_devices built from raw_devices.
NewDevices(raw, time) ==
    [d \in DOMAIN raw |-> DeviceInfo(MapStatus(raw[d]), time)]

\* dict.update
DictUpdate(dict, other) ==
    [d \in DOMAIN dict \cup DOMAIN other |->
        IF d \in DOMAIN other THEN other[d] ELSE dict[d]]

WithStatus(dict, status) == {d \in DOMAIN dict : dict[d].status = status}

\* Triage that looks for offline devices before unauthorized ones.
Triage_OfflineFirst(devices, want) ==
    IF DOMAIN devices = {}
    THEN [ok |-> FALSE, msg |-> "no_devices", count |-> 0]
    ELSE IF WithStatus(devices, "connected") # {}
    THEN [ok |-> TRUE, msg |-> "connected",
          count |-> Cardinality(WithStatus(devices, "connected"))]
    ELSE IF WithStatus(devices, "offline") # {}
    THEN [ok |-> FALSE, msg |-> "offline",
          count |-> Cardinality(WithStatus(devices, "offline"))]
    ELSE IF WithStatus(devices, "unauthorized") # {}
    THEN [ok |-> FALSE, msg |-> "unauthorized",
          count |-> Cardinality(WithStatus(devices, "unauthorized"))]
    ELSE [ok |-> FALSE, msg |-> "none_usable",
          count |-> Cardinality(DOMAIN devices)]

\* check_device_connection after its scan: the decision on the devices the
\* scan returned, for the requested device id ("": none requested).
Triage(devices, want) ==
    IF DOMAIN devices = {}
    THEN [ok |-> FALSE, msg |-> "no_devices", count |-> 0]
    ELSE IF want # ""
    THEN IF want \notin DOMAIN devices
         THEN [ok |-> FALSE, msg |-> "not_connected", count |-> 0]
         ELSE IF devices[want].status = "connected"
         THEN [ok |-> TRUE, msg |-> "connected", count |-> 1]
         ELSE IF devices[want].status = "unauthorized"
         THEN [ok |-> FALSE, msg |-> "unauthorized", count |-> 1]
         ELSE IF devices[want].status = "offline"
         THEN [ok |-> FALSE, msg |-> "offline", count |-> 1]
         ELSE [ok |-> FALSE, msg |-> "status_unknown", count |-> 1]
    ELSE IF WithStatus(devices, "connected") # {}
    THEN [ok |-> TRUE, msg |-> "connected",
          count |-> Cardinality(WithStatus(devices, "connected"))]
    ELSE IF WithStatus(devices, "unauthorized") # {}
    THEN [ok |-> FALSE, msg |-> "unauthorized",
          count |-> Cardinality(WithStatus(devices, "unauthorized"))]
    ELSE IF WithStatus(devices, "offline") # {}
    THEN [ok |-> FALSE, msg |-> "offline",
          count |-> Cardinality(WithStatus(devices, "offline"))]
    ELSE [ok |-> FALSE, msg |-> "none_usable",
          count |-> Cardinality(DOMAIN devices)]

\* current_time = time.time() at the entry of scan_devices, for the call
\* op ("scan": scan_devices itself, "check": from check_device_connection,
\* "monitor": from monitor_loop).
Entry(op, force, want) ==
    [NoCall EXCEPT !.op = op, !.force = force, !.time = now, !.want = want]

\* The short-circuit test of scan_devices.
Fresh(force) == ~force /\ (now - last_scan_time) < scan_interval

\* The frame when the call returns devices (and check_device_connection
\* decides on them).
Returned(frame, how, devices) ==
    [frame EXCEPT !.pc = "idle", !.outcome = how, !.ret = devices,
                  !.new = EmptyDict, !.old = {}, !.changed = FALSE,
                  !.result = IF frame.op = "check"
                             THEN Triage(devices, frame.want) ELSE NoResult]

\* The fields scan_devices never assigns.
FieldsUnchanged ==
    UNCHANGED <<now, scan_interval, status_callbacks, monitoring_active,
                monitoring_thread>>

SharedUnchanged == FieldsUnchanged /\ UNCHANGED mon

\* scan_devices within the interval of the last scan: the cache copy is
\* returned, nothing is listed.
Cached(t, op) ==
    /\ sc[t].pc = "idle"
    /\ Fresh(FALSE)
    /\ sc' = [sc EXCEPT
                 ![t] = Returned(Entry(op, FALSE, ""), "cached", devices_cache)]
    /\ UNCHANGED <<devices_cache, last_scan_time, prev_listing>>
    /\ FieldsUnchanged
    /\ UNCHANGED OutsideDevice

\* ListFails that counts the failed listing as a scan.
ListFails_Stamped(t, op, force, want) ==
    /\ sc[t].pc = "idle"
    /\ ~Fresh(force)
    /\ sc' = [sc EXCEPT
                 ![t] = Returned([Entry(op, force, want) EXCEPT !.lists = 1],
                                 "list_failed", devices_cache)]
    /\ last_scan_time' = now
    /\ UNCHANGED <<devices_cache, prev_listing>>
    /\ FieldsUnchanged
    /\ UNCHANGED OutsideDevice

\* scan_devices, forced or stale, and factory.list_devices() raises: the
\* except clause returns the cache copy.
ListFails(t, op, force, want) ==
    /\ sc[t].pc = "idle"
    /\ ~Fresh(force)
    /\ sc' = [sc EXCEPT
                 ![t] = Returned([Entry(op, force, want) EXCEPT !.lists = 1],
                                 "list_failed", devices_cache)]
    /\ UNCHANGED <<devices_cache, last_scan_time, prev_listing>>
    /\ FieldsUnchanged
    /\ UNCHANGED OutsideDevice

\* scan_devices, forced or stale, and factory.list_devices() returns raw:
\* new_devices is built.
Listed(t, op, force, want, raw) ==
    /\ sc[t].pc = "idle"
    /\ ~Fresh(force)
    /\ sc' = [sc EXCEPT
                 ![t] = [Entry(op, force, want) EXCEPT
                            !.pc = "mark", !.lists = 1,
                            !.new = NewDevices(raw, now)]]
    /\ UNCHANGED <<devices_cache, last_scan_time, prev_listing>>
    /\ FieldsUnchanged
    /\ UNCHANGED OutsideDevice

\* The cache after the loop over old_devices - new_device_ids: the cached
\* devices that are not among ids are disconnected, checked at time.
MarkDisconnected(ids, time) ==
    [d \in DOMAIN devices_cache |->
        IF d \notin ids THEN DeviceInfo("disconnected", time)
        ELSE devices_cache[d]]

\* ScanMark that deletes the devices the listing lacks.
ScanMark_Delete(t) ==
    /\ sc[t].pc = "mark"
    /\ devices_cache' = [d \in DOMAIN devices_cache \cap DOMAIN sc[t].new |->
                            devices_cache[d]]
    /\ sc' = [sc EXCEPT ![t].pc = "update", ![t].old = DOMAIN devices_cache]
    /\ UNCHANGED <<last_scan_time, prev_listing>>
    /\ SharedUnchanged
    /\ UNCHANGED OutsideDevice

\* old_devices and new_device_ids are taken, and the cached devices the
\* listing lacks are marked disconnected (outside the lock).
ScanMark(t) ==
    /\ sc[t].pc = "mark"
    /\ devices_cache' = MarkDisconnected(DOMAIN sc[t].new, sc[t].time)
    /\ sc' = [sc EXCEPT ![t].pc = "update", ![t].old = DOMAIN devices_cache]
    /\ UNCHANGED <<last_scan_time, prev_listing>>
    /\ SharedUnchanged
    /\ UNCHANGED OutsideDevice

\* self._devices_cache.update(new_devices); self._last_scan_time =
\* current_time; then the test whether to notify.
UpdateCache(t) ==
    /\ devices_cache' = DictUpdate(devices_cache, sc[t].new)
    /\ last_scan_time' = sc[t].time
    /\ prev_listing' = DOMAIN sc[t].new
    /\ sc' = [sc EXCEPT ![t].pc = IF sc[t].old # DOMAIN sc[t].new
                                  THEN "notify" ELSE "return",
                         ![t].changed = (DOMAIN sc[t].new # prev_listing)]

\* with self._lock: the cache is updated and the scan time set, as one
\* step of a thread that finds the lock free.
ScanUpdate(t) ==
    /\ sc[t].pc = "update"
    /\ lock = 0
    /\ UpdateCache(t)
    /\ SharedUnchanged
    /\ UNCHANGED OutsideDevice

\* The callbacks invoked up to and including the first one that raises.
RECURSIVE UntilRaise(_)
UntilRaise(cbs) ==
    IF cbs = <<>> THEN <<>>
    ELSE IF Head(cbs) = "cb_raise" THEN <<Head(cbs)>>
    ELSE <<Head(cbs)>> \o UntilRaise(Tail(cbs))

\* ScanNotify without the try around the callback: the first exception
\* ends the loop and is caught by the except clause of scan_devices.
ScanNotify_NoTry(t) ==
    /\ sc[t].pc = "notify"
    /\ sc' = [sc EXCEPT
                 ![t] = IF UntilRaise(status_callbacks) = status_callbacks
                        THEN [sc[t] EXCEPT !.pc = "return",
                                           !.notified = status_callbacks]
                        ELSE Returned([sc[t] EXCEPT !.notified =
                                           UntilRaise(status_callbacks)],
                                      "scan_failed", devices_cache)]
    /\ UNCHANGED <<devices_cache, last_scan_time, prev_listing>>
    /\ SharedUnchanged
    /\ UNCHANGED OutsideDevice

\* _notify_status_change: with self._lock, every callback is invoked with a
\* copy of the cache; an exception it raises is caught and printed.
ScanNotify(t) ==
    /\ sc[t].pc = "notify"
    /\ lock = 0
    /\ sc' = [sc EXCEPT ![t].pc = "return", ![t].notified = status_callbacks]
    /\ UNCHANGED <<devices_cache, last_scan_time, prev_listing>>
    /\ SharedUnchanged
    /\ UNCHANGED OutsideDevice

\* return self._devices_cache.copy()
ScanReturn(t) ==
    /\ sc[t].pc = "return"
    /\ sc' = [sc EXCEPT ![t] = Returned(sc[t], "scanned", devices_cache)]
    /\ UNCHANGED <<devices_cache, last_scan_time, prev_listing>>
    /\ SharedUnchanged
    /\ UNCHANGED OutsideDevice

\* The thread is not inside start_monitoring, stop_monitoring or a loop.
Free(t) == mon[t] = "none"

\* scan_devices(force_refresh=False) served from the cache.
ScanCached(t) == Free(t) /\ Cached(t, "scan") /\ UNCHANGED mon

\* scan_devices whose listing fails.
ScanListFails(t, force) ==
    Free(t) /\ ListFails(t, "scan", force, "") /\ UNCHANGED mon

\* scan_devices whose listing succeeds.
ScanListed(t, force, raw) ==
    Free(t) /\ Listed(t, "scan", force, "", raw) /\ UNCHANGED mon

\* check_device_connection: scan_devices(force_refresh=True) fails to list.
CheckListFails(t, want) ==
    Free(t) /\ ListFails(t, "check", TRUE, want) /\ UNCHANGED mon

\* check_device_connection: scan_devices(force_refresh=True) lists.
CheckListed(t, want, raw) ==
    Free(t) /\ Listed(t, "check", TRUE, want, raw) /\ UNCHANGED mon

\* cb in list
Has(list, cb) == \E i \in 1..Len(list) : list[i] = cb

\* list.remove(cb): the list without the first occurrence of cb.
ListRemove(list, cb) ==
    [i \in 1..(Len(list) - 1) |->
        IF \A j \in 1..i : list[j] # cb THEN list[i] ELSE list[i + 1]]

\* add_status_callback (a callback is registered once).
AddStatusCallback(cb) ==
    /\ lock = 0
    /\ \A i \in 1..Len(status_callbacks) : status_callbacks[i] # cb
    /\ status_callbacks' = Append(status_callbacks, cb)
    /\ UNCHANGED <<now, devices_cache, last_scan_time, scan_interval,
                   monitoring_active, monitoring_thread, sc, mon, prev_listing>>
    /\ UNCHANGED OutsideDevice

\* remove_status_callback
RemoveStatusCallback(cb) ==
    /\ lock = 0
    /\ \E i \in 1..Len(status_callbacks) : status_callbacks[i] = cb
    /\ status_callbacks' = ListRemove(status_callbacks, cb)
    /\ UNCHANGED <<now, devices_cache, last_scan_time, scan_interval,
                   monitoring_active, monitoring_thread, sc, mon, prev_listing>>
    /\ UNCHANGED OutsideDevice

\* Time passes.
Tick ==
    /\ now < MaxTime
    /\ now' = now + 1
    /\ UNCHANGED <<devices_cache, last_scan_time, scan_interval,
                   status_callbacks, monitoring_active, monitoring_thread, sc,
                   mon, prev_listing>>
    /\ UNCHANGED OutsideDevice

\* The one thread that calls the DeviceManager when nothing is monitored.
Caller == 1

DeviceNext ==
    \/ ScanCached(Caller)
    \/ \E force \in BOOLEAN : ScanListFails(Caller, force)
    \/ \E force \in BOOLEAN, raw \in Listings : ScanListed(Caller, force, raw)
    \/ \E want \in Wanted : CheckListFails(Caller, want)
    \/ \E want \in Wanted, raw \in Listings : CheckListed(Caller, want, raw)
    \/ ScanMark(Caller)
    \/ ScanUpdate(Caller)
    \/ ScanNotify(Caller)
    \/ ScanReturn(Caller)
    \/ \E cb \in Callbacks : sc[Caller].pc = "idle" /\ AddStatusCallback(cb)
    \/ \E cb \in Callbacks : sc[Caller].pc = "idle" /\ RemoveStatusCallback(cb)
    \/ Tick

DeviceSpec == InitAll /\ [][DeviceNext]_devVars

\* C14: two successive scan_devices(force_refresh=False) calls of a thread
\* that are less than scan_interval apart issue at most one list_devices
\* call between them, and the second returns what the first returned.
C14_OneListingPerWindow ==
    [][\A t \in Threads :
          (/\ sc[t].pc = "idle" /\ sc[t].op = "scan" /\ ~sc[t].force
           /\ sc'[t] # sc[t]
           /\ sc'[t].op = "scan" /\ ~sc'[t].force
           /\ sc'[t].time - sc[t].time < scan_interval)
              => /\ sc[t].lists + sc'[t].lists <= 1
                 /\ sc'[t].pc = "idle" => sc'[t].ret = sc[t].ret]_devVars

\* The scan of thread t has marked and updated the cache.
Applied(t) == sc[t].pc \in {"notify", "return"}

\* C15: no step removes a key from the cache, and once a scan has updated
\* the cache every device that was cached before it and is not in its
\* listing is a key with status disconnected and last_check the scan's time.
C15_ScanNeverDeletes ==
    /\ [][DOMAIN devices_cache \subseteq DOMAIN devices_cache']_devVars
    /\ [](\A t \in Threads :
             Applied(t) =>
                 \A d \in sc[t].old \ DOMAIN sc[t].new :
                     /\ d \in DOMAIN devices_cache
                     /\ devices_cache[d] = DeviceInfo("disconnected", sc[t].time))

\* A scan later than the first is about to return: both devices were
\* cached before it, its listing had only d1, and d2 is kept, marked.
C15_Witness ==
    /\ sc[Caller].pc = "return"
    /\ sc[Caller].old = Devices
    /\ DOMAIN sc[Caller].new = {"d1"}
    /\ devices_cache["d2"] = DeviceInfo("disconnected", sc[Caller].time)
    /\ sc[Caller].time > ScanInterval

\* C16: a scan that has listed invokes the registered callbacks if and only
\* if its listing's device ids differ from those of the listing before it.
C16_NotifyIffKeysChanged ==
    \A t \in Threads :
        (sc[t].pc = "return" /\ status_callbacks # <<>>) =>
            (sc[t].notified # <<>> <=> sc[t].changed)

\* C17: the notification step invokes every registered callback once, in
\* order, whether or not one of them raises, and goes on to the return of
\* scan_devices with the cache and the scan time as the update left them.
C17_RaisingCallbackIsolated ==
    /\ [][\A t \in Threads :
             (sc[t].pc = "notify" /\ sc'[t].pc # "notify") =>
                 /\ sc'[t].pc = "return"
                 /\ sc'[t].notified = status_callbacks
                 /\ devices_cache' = devices_cache
                 /\ last_scan_time' = last_scan_time]_devVars
    /\ [](\A t \in Threads :
             (sc[t].pc = "return" /\ sc[t].old # DOMAIN sc[t].new) =>
                 /\ sc[t].notified = status_callbacks
                 /\ \A d \in DOMAIN sc[t].new : devices_cache[d] = sc[t].new[d]
                 /\ last_scan_time = sc[t].time)

\* The raising callback was invoked first and the other one after it.
C17_Witness ==
    /\ sc[Caller].pc = "return"
    /\ sc[Caller].notified = <<"cb_raise", "cb_ok">>
    /\ DOMAIN sc[Caller].new # {}

\* C18: a scan_devices call whose listing fails returns the cache, and
\* leaves the cache and the last scan time as they were and invokes no
\* callback.
C18_FailedListingKeepsCache ==
    [][\A t \in Threads :
          (sc[t].pc = "idle" /\ sc'[t] # sc[t]
           /\ sc'[t].outcome = "list_failed")
              => /\ sc'[t].pc = "idle"
                 /\ sc'[t].ret = devices_cache
                 /\ sc'[t].notified = <<>>
                 /\ devices_cache' = devices_cache
                 /\ last_scan_time' = last_scan_time]_devVars

\* A forced scan has failed on a non-empty cache with a callback
\* registered, later than the last scan.
C18_Witness ==
    /\ sc[Caller].pc = "idle"
    /\ sc[Caller].outcome = "list_failed"
    /\ sc[Caller].force
    /\ sc[Caller].ret = devices_cache
    /\ DOMAIN devices_cache = Devices
    /\ status_callbacks # <<>>
    /\ last_scan_time < sc[Caller].time

\* The result for n devices in the state the message names.
Failure(msg, n) == [ok |-> FALSE, msg |-> msg, count |-> n]

C29_AbsentIsNotConnected ==
    \A t \in Threads :
        (/\ sc[t].pc = "idle" /\ sc[t].op = "check"
         /\ sc[t].outcome = "scanned"
         /\ sc[t].want # ""
         /\ sc[t].want \notin prev_listing
         /\ prev_listing # {}) =>
            sc[t].result = Failure("not_connected", 0)

(***************************************************************************)
(* start_monitoring, stop_monitoring and monitor_loop.  mon[t] of a caller *)
(* is where it is in start_monitoring or stop_monitoring; mon[m] of a      *)
(* monitor thread is "none" before the thread is started, "loop" at the    *)
(* while test, "scan" inside the iteration's scan_devices call, "sleep"    *)
(* in time.sleep(interval), "dead" after the loop.                         *)
(***************************************************************************)

\* What list_devices returns while the monitoring is looked at.
MonitorListings == { EmptyDict, [d \in {"d1"} |-> "device"] }

\* The interval argument of start_monitoring.
Intervals == {ScanInterval}

ScanUnchanged ==
    UNCHANGED <<now, devices_cache, last_scan_time, status_callbacks, sc,
                prev_listing>>

\* The monitor threads not started yet.
Unstarted == {m \in MonitorThreads : mon[m] = "none"}

\* The callers between the test of start_monitoring and its thread start.
Starting == {t \in CallerThreads : mon[t] \in {"start_set", "start_thread"}}

\* start_monitoring, self._monitoring_active is set: return.
StartMonitoringActive(t) ==
    /\ mon[t] = "none" /\ sc[t].pc = "idle"
    /\ monitoring_active
    /\ UNCHANGED devVars
    /\ UNCHANGED OutsideDevice

\* start_monitoring, self._monitoring_active is not set: go on.
StartMonitoringTest(t) ==
    /\ mon[t] = "none" /\ sc[t].pc = "idle"
    /\ ~monitoring_active
    /\ Cardinality(Starting) < Cardinality(Unstarted)
    /\ mon' = [mon EXCEPT ![t] = "start_set"]
    /\ UNCHANGED <<scan_interval, monitoring_active, monitoring_thread>>
    /\ ScanUnchanged
    /\ UNCHANGED OutsideDevice

\* self._scan_interval = interval; self._monitoring_active = True
StartMonitoringSet(t, interval) ==
    /\ mon[t] = "start_set"
    /\ scan_interval' = interval
    /\ monitoring_active' = TRUE
    /\ mon' = [mon EXCEPT ![t] = "start_thread"]
    /\ UNCHANGED monitoring_thread
    /\ ScanUnchanged
    /\ UNCHANGED OutsideDevice

\* self._monitoring_thread = threading.Thread(...); .start()
StartMonitoringThread(t) ==
    /\ mon[t] = "start_thread"
    /\ \E m \in Unstarted :
           /\ \A k \in Unstarted : m <= k
           /\ monitoring_thread' = m
           /\ mon' = [mon EXCEPT ![t] = "none", ![m] = "loop"]
    /\ UNCHANGED <<scan_interval, monitoring_active>>
    /\ ScanUnchanged
    /\ UNCHANGED OutsideDevice

\* stop_monitoring: self._monitoring_active = False
StopMonitoringClear(t) ==
    /\ mon[t] = "none" /\ sc[t].pc = "idle"
    /\ monitoring_active' = FALSE
    /\ mon' = [mon EXCEPT ![t] = "stop_join"]
    /\ UNCHANGED <<scan_interval, monitoring_thread>>
    /\ ScanUnchanged
    /\ UNCHANGED OutsideDevice

\* stop_monitoring: there is no live thread to join, or join(timeout=1.0)
\* returns, the thread having ended or not.
StopMonitoringJoined(t) ==
    /\ mon[t] = "stop_join"
    /\ mon' = [mon EXCEPT ![t] = "none"]
    /\ UNCHANGED <<scan_interval, monitoring_active, monitoring_thread>>
    /\ ScanUnchanged
    /\ UNCHANGED OutsideDevice

\* monitor_loop: the while test holds and scan_devices(force_refresh=True)
\* lists.
MonitorScanListed(m, raw) ==
    /\ mon[m] = "loop"
    /\ monitoring_active
    /\ Listed(m, "monitor", TRUE, "", raw)
    /\ mon' = [mon EXCEPT ![m] = "scan"]

\* monitor_loop: the while test holds and the listing of scan_devices fails.
MonitorScanListFails(m) ==
    /\ mon[m] = "loop"
    /\ monitoring_active
    /\ ListFails(m, "monitor", TRUE, "")
    /\ mon' = [mon EXCEPT ![m] = "scan"]

\* monitor_loop: scan_devices has returned, time.sleep(interval) begins.
MonitorSleep(m) ==
    /\ mon[m] = "scan"
    /\ sc[m].pc = "idle"
    /\ mon' = [mon EXCEPT ![m] = "sleep"]
    /\ UNCHANGED <<scan_interval, monitoring_active, monitoring_thread>>
    /\ ScanUnchanged
    /\ UNCHANGED OutsideDevice

\* monitor_loop: time.sleep(interval) returns.
MonitorWake(m) ==
    /\ mon[m] = "sleep"
    /\ mon' = [mon EXCEPT ![m] = "loop"]
    /\ UNCHANGED <<scan_interval, monitoring_active, monitoring_thread>>
    /\ ScanUnchanged
    /\ UNCHANGED OutsideDevice

\* monitor_loop: the while test fails, the thread ends.
MonitorExit(m) ==
    /\ mon[m] = "loop"
    /\ ~monitoring_active
    /\ mon' = [mon EXCEPT ![m] = "dead"]
    /\ UNCHANGED <<scan_interval, monitoring_active, monitoring_thread>>
    /\ ScanUnchanged
    /\ UNCHANGED OutsideDevice

MonitorLoop(m) ==
    \/ \E raw \in MonitorListings : MonitorScanListed(m, raw)
    \/ MonitorScanListFails(m)
    \/ ScanMark(m)
    \/ ScanUpdate(m)
    \/ ScanNotify(m)
    \/ ScanReturn(m)
    \/ MonitorSleep(m)
    \/ MonitorWake(m)
    \/ MonitorExit(m)

MonitoringCaller(t) ==
    \/ StartMonitoringActive(t)
    \/ StartMonitoringTest(t)
    \/ \E interval \in Intervals : StartMonitoringSet(t, interval)
    \/ StartMonitoringThread(t)
    \/ StopMonitoringClear(t)
    \/ StopMonitoringJoined(t)

MonitorNext ==
    \/ \E t \in CallerThreads : MonitoringCaller(t)
    \/ \E m \in MonitorThreads : MonitorLoop(m)

MonitorSpec == InitAll /\ [][MonitorNext]_devVars

\* The thread is inside an iteration of monitor_loop.
Looping(m) == mon[m] \in {"scan", "sleep"}

\* C20: at most one monitor thread is inside an iteration of the scan loop.
C20_AtMostOneMonitorLoop ==
    Cardinality({m \in MonitorThreads : Looping(m)}) <= 1

(***************************************************************************)
(* The lock.  The `with self._lock` blocks of scan_devices,                *)
(* _notify_status_change, add_status_callback and remove_status_callback   *)
(* are entered by Acquire and left by the step that ends the block; the    *)
(* callbacks are invoked one per step, and a callback may call back into   *)
(* the DeviceManager.  One caller thread and one monitor loop thread.      *)
(***************************************************************************)

\* The first monitor loop thread.
Monitor == 3

LockThreads == {Caller, Monitor}

\* The callbacks that get registered: cb_ok returns, cb_add calls
\* add_status_callback(cb_ok), cb_scan calls
\* scan_devices(force_refresh=True).
LockCallbacks == {"cb_ok", "cb_add", "cb_scan"}

lockAllVars == <<devVars, lockVars>>

\* The thread is not inside add_status_callback or remove_status_callback,
\* and the callback it runs (if any) has not called into the DeviceManager.
Idle(t) == cbk[t] = NoCallback

LockFieldsUnchanged ==
    UNCHANGED <<now, scan_interval, monitoring_active, monitoring_thread, mon>>

\* with self._lock: threading.Lock.acquire() returns when no thread is
\* inside a block, the caller's own blocks included.
Acquire(t) ==
    /\ lock = 0
    /\ lock' = t
    /\ IF cbk[t].pc = "wait"
       THEN /\ cbk' = [cbk EXCEPT ![t].pc = "locked"]
            /\ UNCHANGED sc
       ELSE /\ sc[t].pc \in {"update", "notify"}
            /\ sc' = [sc EXCEPT ![t].pc = IF sc[t].pc = "update"
                                          THEN "locked" ELSE "calling"]
            /\ UNCHANGED cbk
    /\ UNCHANGED <<devices_cache, last_scan_time, status_callbacks,
                   prev_listing>>
    /\ LockFieldsUnchanged
    /\ UNCHANGED OutsideManager

\* Inside the block of scan_devices: the cache is updated and the scan time
\* set, and the block is left.
ScanUpdateLocked(t) ==
    /\ sc[t].pc = "locked"
    /\ lock = t
    /\ UpdateCache(t)
    /\ lock' = 0
    /\ UNCHANGED <<cbk, status_callbacks>>
    /\ LockFieldsUnchanged
    /\ UNCHANGED OutsideManager

\* The callback the for loop of _notify_status_change invokes next.
NextCallback(t) == status_callbacks[Len(sc[t].notified) + 1]

\* Inside the block of _notify_status_change, with a callback left.
InCallbackLoop(t) ==
    /\ sc[t].pc = "calling"
    /\ lock = t
    /\ Idle(t)
    /\ Len(sc[t].notified) < Len(status_callbacks)

Invoked(t) == sc' = [sc EXCEPT ![t].notified = Append(@, NextCallback(t))]

\* callback(self._devices_cache.copy()) returns: cb_ok, or cb_scan whose
\* scan_devices call fails to list and returns the cache from its except
\* clause.
CallbackReturns(t) ==
    /\ InCallbackLoop(t)
    /\ NextCallback(t) \in {"cb_ok", "cb_scan"}
    /\ Invoked(t)
    /\ UNCHANGED <<devices_cache, last_scan_time, status_callbacks,
                   prev_listing>>
    /\ UNCHANGED lockVars
    /\ LockFieldsUnchanged
    /\ UNCHANGED OutsideManager

\* The callback calls add_status_callback, which comes to its
\* `with self._lock`.
CallbackSubscribes(t) ==
    /\ InCallbackLoop(t)
    /\ NextCallback(t) = "cb_add"
    /\ Invoked(t)
    /\ cbk' = [cbk EXCEPT
                  ![t] = [op |-> "add", arg |-> "cb_ok", pc |-> "wait"]]
    /\ UNCHANGED <<devices_cache, last_scan_time, status_callbacks,
                   prev_listing>>
    /\ UNCHANGED lock
    /\ LockFieldsUnchanged
    /\ UNCHANGED OutsideManager

\* The callback calls scan_devices(force_refresh=True), which lists raw,
\* marks the cached devices the listing lacks and comes to its
\* `with self._lock`.
CallbackScans(t, raw) ==
    /\ InCallbackLoop(t)
    /\ NextCallback(t) = "cb_scan"
    /\ Invoked(t)
    /\ devices_cache' = MarkDisconnected(DOMAIN raw, now)
    /\ cbk' = [cbk EXCEPT ![t] = [op |-> "scan", arg |-> "", pc |-> "wait"]]
    /\ UNCHANGED <<last_scan_time, status_callbacks, prev_listing>>
    /\ UNCHANGED lock
    /\ LockFieldsUnchanged
    /\ UNCHANGED OutsideManager

\* The for loop of _notify_status_change is over and its block is left.
NotifyDone(t) ==
    /\ sc[t].pc = "calling"
    /\ lock = t
    /\ Idle(t)
    /\ Len(sc[t].notified) = Len(status_callbacks)
    /\ sc' = [sc EXCEPT ![t].pc = "return"]
    /\ lock' = 0
    /\ UNCHANGED <<devices_cache, last_scan_time, status_callbacks,
                   prev_listing>>
    /\ UNCHANGED cbk
    /\ LockFieldsUnchanged
    /\ UNCHANGED OutsideManager

\* add_status_callback(cb) or remove_status_callback(cb) is called and
\* comes to its `with self._lock` (a callback is registered once, and
\* removed when registered).
Subscribe(t, op, cb) ==
    /\ Free(t) /\ sc[t].pc = "idle" /\ Idle(t)
    /\ IF op = "add" THEN ~Has(status_callbacks, cb)
                     ELSE Has(status_callbacks, cb)
    /\ cbk' = [cbk EXCEPT ![t] = [op |-> op, arg |-> cb, pc |-> "wait"]]
    /\ UNCHANGED <<devices_cache, last_scan_time, status_callbacks,
                   prev_listing, sc>>
    /\ UNCHANGED lock
    /\ LockFieldsUnchanged
    /\ UNCHANGED OutsideManager

\* Inside the block of add_status_callback or remove_status_callback: the
\* list is changed and the block is left.
SubscribeLocked(t) ==
    /\ cbk[t].pc = "locked"
    /\ cbk[t].op \in {"add", "remove"}
    /\ lock = t
    /\ status_callbacks' =
           IF cbk[t].op = "add" THEN Append(status_callbacks, cbk[t].arg)
           ELSE IF Has(status_callbacks, cbk[t].arg)
           THEN ListRemove(status_callbacks, cbk[t].arg)
           ELSE status_callbacks
    /\ cbk' = [cbk EXCEPT ![t] = NoCallback]
    /\ lock' = 0
    /\ UNCHANGED <<devices_cache, last_scan_time, prev_listing, sc>>
    /\ LockFieldsUnchanged
    /\ UNCHANGED OutsideManager

\* The steps of a scan_devices call after its listing.
LockedScan(t) ==
    \/ ScanMark(t)
    \/ Acquire(t)
    \/ ScanUpdateLocked(t)
    \/ CallbackReturns(t)
    \/ CallbackSubscribes(t)
    \/ \E raw \in MonitorListings : CallbackScans(t, raw)
    \/ NotifyDone(t)
    \/ ScanReturn(t)
    \/ SubscribeLocked(t)

\* What the caller thread goes on with once it has made a call.
CallerContinues(t) ==
    \/ LockedScan(t)
    \/ \E interval \in Intervals : StartMonitoringSet(t, interval)
    \/ StartMonitoringThread(t)
    \/ StopMonitoringJoined(t)

\* scan_devices(force_refresh=True) called from outside a callback.
CallerScanListed(t, raw) == Idle(t) /\ ScanListed(t, TRUE, raw)

CallerScanListFails(t) == Idle(t) /\ ScanListFails(t, TRUE)

\* start_monitoring, called once.
CallerStartMonitoring(t) ==
    Idle(t) /\ Unstarted = MonitorThreads /\ StartMonitoringTest(t)

CallerStopMonitoring(t) == Idle(t) /\ StopMonitoringClear(t)

\* The calls the caller thread makes.
CallerCalls(t) ==
    \/ \E raw \in MonitorListings : CallerScanListed(t, raw)
    \/ CallerScanListFails(t)
    \/ \E cb \in LockCallbacks : Subscribe(t, "add", cb)
    \/ \E cb \in LockCallbacks : Subscribe(t, "remove", cb)
    \/ CallerStartMonitoring(t)
    \/ CallerStopMonitoring(t)

\* monitor_loop with the blocks of its scan_devices call.
LockedMonitorLoop(m) ==
    \/ \E raw \in MonitorListings : MonitorScanListed(m, raw)
    \/ MonitorScanListFails(m)
    \/ LockedScan(m)
    \/ MonitorSleep(m)
    \/ MonitorWake(m)
    \/ MonitorExit(m)

LockNext ==
    \/ CallerCalls(Caller)
    \/ CallerContinues(Caller)
    \/ LockedMonitorLoop(Monitor)

LockSpec == InitAll /\ [][LockNext]_lockAllVars

\* Every thread that can go on does: the lock is handed to a thread that
\* keeps asking for it, time.sleep and join(timeout) return.
FairLockSpec ==
    /\ LockSpec
    /\ SF_lockAllVars(CallerContinues(Caller))
    /\ SF_lockAllVars(LockedMonitorLoop(Monitor))

\* The thread is at a `with self._lock`.
Waiting(t) ==
    \/ cbk[t].pc = "wait"
    \/ Idle(t) /\ sc[t].pc \in {"update", "notify"}

\* C22: no thread is at a `with self._lock` while the thread inside the
\* block is itself at one (and so never leaves it).
C22_NoThreadBlockedForever ==
    \A t \in Threads : ~(Waiting(t) /\ lock # 0 /\ Waiting(lock))

\* C28: every step that changes the cache, the last scan time or the
\* callback list is taken by the thread that is inside a `with self._lock`
\* block.
C28_MutationsUnderLock ==
    [][(\/ devices_cache' # devices_cache
        \/ last_scan_time' # last_scan_time
        \/ status_callbacks' # status_callbacks)
           => \E t \in Threads :
                  /\ lock = t
                  /\ sc'[t] # sc[t] \/ cbk'[t] # cbk[t]]_lockAllVars

\* C30: a stop_monitoring call returns, and when from some moment on
\* monitoring is not active every monitor loop thread ends.
C30_StopReturnsLoopExits ==
    /\ \A t \in CallerThreads : (mon[t] = "stop_join") ~> (mon[t] = "none")
    /\ (<>[](~monitoring_active)) =>
           <>[](\A m \in MonitorThreads : mon[m] \in {"none", "dead"})

(***************************************************************************)
(* Object identity.  self._devices_cache maps device ids to DeviceInfo     *)
(* objects; dict.copy() copies the mapping and shares the objects.  One    *)
(* thread calls, each call is one step; the clock stands still, so every   *)
(* cached DeviceInfo is fresh for get_device_status.                       *)
(***************************************************************************)

\* The order in which a listing is iterated.
DeviceOrder == <<"d1", "d2">>

Index(d) == CHOOSE i \in 1..Len(DeviceOrder) : DeviceOrder[i] = d

\* What factory.list_devices() returns here.
SnapListings == { [d \in ds |-> "device"] : ds \in SUBSET Devices }

\* The objects after the loop over old_devices - new_device_ids, which
\* assigns status and last_check of the cached objects in place.
HeapMarked(raw) ==
    [r \in 1..Len(heap) |->
        IF \E d \in DOMAIN cache_refs \ DOMAIN raw : cache_refs[d] = r
        THEN DeviceInfo("disconnected", now)
        ELSE heap[r]]

\* The reference of the DeviceInfo created for device d of the listing.
NewRef(raw, d) ==
    Len(heap) + Cardinality({e \in DOMAIN raw : Index(e) <= Index(d)})

\* The objects after scan_devices has listed raw.
HeapAfterScan(raw) ==
    [r \in 1..(Len(heap) + Cardinality(DOMAIN raw)) |->
        IF r <= Len(heap) THEN HeapMarked(raw)[r]
        ELSE DeviceInfo(
                 MapStatus(raw[CHOOSE d \in DOMAIN raw : NewRef(raw, d) = r]),
                 now)]

\* self._devices_cache.update(new_devices)
RefsAfterScan(raw) ==
    [d \in DOMAIN cache_refs \cup DOMAIN raw |->
        IF d \in DOMAIN raw THEN NewRef(raw, d) ELSE cache_refs[d]]

\* scan_devices(force_refresh=True) lists raw.
Scanned(raw) ==
    /\ Len(heap) + Cardinality(DOMAIN raw) <= MaxObjects
    /\ heap' = HeapAfterScan(raw)
    /\ cache_refs' = RefsAfterScan(raw)

\* One DeviceInfo, handed out under its device id.
One(d, ref) == [e \in {d} |-> ref]

\* scan_devices returns self._devices_cache.copy(); the caller keeps the
\* value it held or holds the new one.  A callback is handed the same copy.
SnapScanDevices(raw, keep) ==
    /\ Scanned(raw)
    /\ held' = IF keep THEN held
               ELSE Handed(RefsAfterScan(raw), HeapAfterScan(raw))
    /\ snap_op' = "scan"
    /\ UNCHANGED OutsideSnapshot

\* get_device_status(d): the cached DeviceInfo when there is one, else
\* devices.get(d) of a scan.
SnapGetDeviceStatus(d, raw, keep) ==
    /\ IF d \in DOMAIN cache_refs
       THEN /\ held' = IF keep THEN held
                       ELSE Handed(One(d, cache_refs[d]), heap)
            /\ UNCHANGED <<heap, cache_refs>>
       ELSE /\ Scanned(raw)
            /\ held' = IF keep \/ d \notin DOMAIN raw THEN held
                       ELSE Handed(One(d, NewRef(raw, d)), HeapAfterScan(raw))
    /\ snap_op' = "get"
    /\ UNCHANGED OutsideSnapshot

\* check_device_connection(d): devices[d] of its scan, when d is in it.
SnapCheckDeviceConnection(d, raw, keep) ==
    /\ Scanned(raw)
    /\ held' = IF keep \/ d \notin DOMAIN RefsAfterScan(raw) THEN held
               ELSE Handed(One(d, RefsAfterScan(raw)[d]), HeapAfterScan(raw))
    /\ snap_op' = "check"
    /\ UNCHANGED OutsideSnapshot

\* The caller assigns the status of a DeviceInfo it was handed.
SnapSetStatus(d) ==
    /\ d \in DOMAIN held.refs
    /\ heap[held.refs[d]].status # "offline"
    /\ heap' = [heap EXCEPT ![held.refs[d]].status = "offline"]
    /\ held' = [held EXCEPT !.seen[d].status = "offline"]
    /\ snap_op' = "mutate"
    /\ UNCHANGED cache_refs
    /\ UNCHANGED OutsideSnapshot

\* dict without the key d
Without(dict, d) == [e \in DOMAIN dict \ {d} |-> dict[e]]

\* The caller deletes an entry of the dict it was handed.
SnapDelete(d) ==
    /\ d \in DOMAIN held.refs
    /\ held' = [refs |-> Without(held.refs, d), seen |-> Without(held.seen, d)]
    /\ snap_op' = "mutate"
    /\ UNCHANGED <<heap, cache_refs>>
    /\ UNCHANGED OutsideSnapshot

SnapshotNext ==
    \/ \E raw \in SnapListings, keep \in BOOLEAN : SnapScanDevices(raw, keep)
    \/ \E d \in Devices, raw \in SnapListings, keep \in BOOLEAN :
           SnapGetDeviceStatus(d, raw, keep)
    \/ \E d \in Devices, raw \in SnapListings, keep \in BOOLEAN :
           SnapCheckDeviceConnection(d, raw, keep)
    \/ \E d \in Devices : SnapSetStatus(d)
    \/ \E d \in Devices : SnapDelete(d)

SnapshotSpec == InitAll /\ [][SnapshotNext]_snapVars

\* The cache as a reader of self._devices_cache finds it.
CacheValue == [d \in DOMAIN cache_refs |-> heap[cache_refs[d]]]

\* The value the caller holds as the caller finds it.
HeldValue == [d \in DOMAIN held.refs |-> heap[held.refs[d]]]

\* C21: the value a caller holds is what the caller was handed and made of
\* it, whatever scans come later, and a caller changing the value it holds
\* leaves the cache as it is.
C21_HandedOutValuesAreCopies ==
    /\ [](HeldValue = held.seen)
    /\ [][snap_op' = "mutate" => CacheValue' = CacheValue]_snapVars

(***************************************************************************)
(* Output capture.  redirect_stdout(captured_output) saves sys.stdout and  *)
(* sets it on entry, and sets the saved stream back on exit; sys.stdout is *)
(* one stream for the whole process, and print writes to the stream that   *)
(* sys.stdout is at the time of the call.  The worker of a run goes on     *)
(* after the run was stopped, so the workers of several runs overlap.      *)
(* redirect_stderr does the same to sys.stderr.                            *)
(***************************************************************************)

\* What agent.run of run r prints, line by line: a thinking section whose
\* text is r.
AgentScript(r) == <<ThinkLine, TextLine(r)>>

\* with redirect_stdout(captured_output): __enter__.  Runs are numbered in
\* the order their workers come here.
CaptureEnter(r) ==
    /\ wpc[r] = "none"
    /\ IF r = 1 THEN TRUE ELSE wpc[r - 1] # "none"
    /\ old_targets' = [old_targets EXCEPT ![r] = sys_stdout]
    /\ sys_stdout' = r
    /\ wpc' = [wpc EXCEPT ![r] = "in"]
    /\ UNCHANGED <<captured_output, written, parsed>>
    /\ UNCHANGED OutsideCapture

\* self.agent.run(task) of run r prints its next line: it goes to the
\* stream sys.stdout is now.
AgentPrints(r) ==
    /\ wpc[r] = "in"
    /\ written[r] < Len(AgentScript(r))
    /\ written' = [written EXCEPT ![r] = @ + 1]
    /\ captured_output' =
           IF sys_stdout = 0 THEN captured_output
           ELSE [captured_output EXCEPT
                    ![sys_stdout] = Append(@, AgentScript(r)[written[r] + 1])]
    /\ UNCHANGED <<sys_stdout, old_targets, wpc, parsed>>
    /\ UNCHANGED OutsideCapture

\* self.agent.run(task) returns, redirect_stdout: __exit__ sets sys.stdout
\* to the stream saved on entry.
CaptureExit(r) ==
    /\ wpc[r] = "in"
    /\ sys_stdout' = old_targets[r]
    /\ wpc' = [wpc EXCEPT ![r] = "parse"]
    /\ UNCHANGED <<old_targets, captured_output, written, parsed>>
    /\ UNCHANGED OutsideCapture

\* self.agent.run(task) raises: __exit__, and the except clause; nothing is
\* parsed.
CaptureExitRaises(r) ==
    /\ wpc[r] = "in"
    /\ sys_stdout' = old_targets[r]
    /\ wpc' = [wpc EXCEPT ![r] = "dead"]
    /\ UNCHANGED <<old_targets, captured_output, written, parsed>>
    /\ UNCHANGED OutsideCapture

\* captured_output.getvalue().split('\n') and _parse_agent_output: the
\* events go on the step_queue of run r.
CaptureParse(r) ==
    /\ wpc[r] = "parse"
    /\ parsed' = [parsed EXCEPT ![r] = ParseAgentOutput(captured_output[r])]
    /\ wpc' = [wpc EXCEPT ![r] = "dead"]
    /\ UNCHANGED <<sys_stdout, old_targets, captured_output, written>>
    /\ UNCHANGED OutsideCapture

CaptureNext ==
    \/ \E r \in Runs : CaptureEnter(r)
    \/ \E r \in Runs : AgentPrints(r)
    \/ \E r \in Runs : CaptureExit(r)
    \/ \E r \in Runs : CaptureExitRaises(r)
    \/ \E r \in Runs : CaptureParse(r)

CaptureSpec == InitAll /\ [][CaptureNext]_captureVars

\* The runs whose agent.run printed some text of the event.
Origins(e) == {e.text[j] : j \in 1..Len(e.text)}

\* C31: no event put on the step_queue of a run is made of what the worker
\* of an earlier run produced.
C31_RunsIsolated ==
    \A r \in Runs : \A i \in 1..Len(parsed[r]) :
        \A q \in Origins(parsed[r][i]) : ~(q < r)

\* C35: when no worker is inside its capture block, sys.stdout is the
\* original stream.
C35_CaptureUndone ==
    (\A r \in Runs : wpc[r] # "in") => sys_stdout = 0
====
